---- MODULE Spec2Model ----
(***************************************************************************)
(* A model of the crawler core of web_scrapper: the URL frontier           *)
(* (core/url_frontier.py), the worker loop of the crawl engine             *)
(* (core/crawler_engine.py), the per-domain rate limiter                   *)
(* (core/rate_limiter.py) and the robots.txt cache (core/robots_parser.py).*)
(*                                                                         *)
(* Tasks are asyncio coroutines.  A step of the model is the code a task   *)
(* runs between two awaits; every `async with self._lock` block of the     *)
(* frontier contains no await, so it is one step.                          *)
(*                                                                         *)
(* The specifications of the module:                                       *)
(*   SpecFrontier  the frontier driven by arbitrary callers                *)
(*   Spec          a crawl: start(seed) and the workers                    *)
(*   SpecLive      the crawl of Spec under fair scheduling                 *)
(*   SpecLinks     a crawl of a portal page with external links            *)
(*   SpecRate      workers running acquire / fetch / record on domains     *)
(*   SpecPage      workers running _crawl_page up to record on the URLs of *)
(*                 a host: robots check, acquire, static fetch, record     *)
(*   SpecRun       start, the workers with rendering, and stop             *)
(*   SpecRobots    the robots.txt cache called on its own                  *)
(*   SpecDedup     ContentDeduplicator.check on a few texts                *)
(*   SpecNormalize URLNormalizer.normalize applied repeatedly              *)
(*   SpecSink      workers saving pages to the JSON sink, then close       *)
(***************************************************************************)
EXTENDS Integers, Sequences, FiniteSets, TLC

\* ------------------------------------------------------------------ bounds

\* Number of worker tasks (config.workers).
NumWorkers == 2
\* Configurations explored: max_depth in 0..MaxDepthCfg, max_urls in 1..MaxUrlsCfg.
MaxDepthCfg == 1
MaxUrlsCfg == 2
\* SpecRate: static fetches in a run, and clock ticks.
MaxRequests == 3
MaxTicks == 2
\* SpecLinks: external links on the portal page.
NumExternal == 11

\* SpecSink: calls of save_page in a run, and the sink's batch_size.
MaxSaves == 6
BatchSize == 2

Workers == 1..NumWorkers

\* ------------------------------------------------------- program constants

\* URLPriority
CRITICAL == 0
HIGH == 1
NORMAL == 2
LOW == 3
DEFERRED == 4

\* default of mark_failed(url, max_retries=3)
max_retries == 3

\* ------------------------------------------------------------------- URLs

Root == "https://a.test/"
P1 == "https://a.test/p1"
P1Upper == "https://a.test/P1"
P2 == "https://a.test/p2"
Private == "https://a.test/private"

Ext == "https://b.test/"
Ext2 == "https://b.test/x"
ExtPrivate == "https://b.test/private"
NoUrl == ""

\* Two other spellings of the home page of a.test
SeedBare == "https://a.test"
SeedTracked == "https://a.test/?si=q"

\* The pages of b.test a portal page links to
ExtLink(i) == "https://b.test/e" \o ToString(i)
ExtLinks == {ExtLink(i) : i \in 1..NumExternal}

Urls == {Root, P1, P1Upper, P2, Private, Ext, Ext2, ExtPrivate,
         SeedBare, SeedTracked} \cup ExtLinks

\* str.lower().strip() on the URLs of the model.
lower_strip(url) ==
    IF url = P1Upper THEN P1 ELSE url

\* hashlib.md5(...).hexdigest(): a digest, taken to be collision free.
md5_hash(content) == <<"md5", content>>

url_hash(url) == md5_hash(lower_strip(url))

Hashes == {url_hash(u) : u \in Urls}

\* ---------------------------------------------------------------- state

VARIABLES
    \* configuration (URLFrontier.__init__, CrawlConfig)
    max_depth, max_urls, respect_robots_txt, follow_external_links,
    \* URLFrontier
    queue,            \* _queue: the heap list
    seen_urls,        \* _seen_urls
    crawled_urls,     \* _crawled_urls
    failed_urls,      \* _failed_urls: hash -> count (0 = absent)
    not_empty,        \* _not_empty event
    clock,            \* time.time() as read by URLEntry.discovered_at
    \* tasks
    pc,               \* where each task is
    entry,            \* the entry a task holds (NoEntry = None)
    \* CrawlerEngine
    running,          \* _running
    site,             \* the web site being crawled (environment)
    pending,          \* links a worker still has to offer (_process_links)
    stats,            \* stats["pages_crawled"], stats["pages_failed"]
    \* observation
    lastOp,           \* the last frontier call and what it returned
    accepted,         \* the URLs for which add has returned True
    delivered,        \* how many times get has returned each URL
    \* AdaptiveRateLimiter, per domain (DomainState)
    now,                \* time.time(), in milliseconds
    last_request_time,
    current_delay,      \* milliseconds
    consecutive_errors,
    request_count,
    rl_lock,            \* _locks[domain]: the task holding it, 0 when free
    \* tasks using the rate limiter
    rpc,                \* where each task is
    rdom,               \* the domain of the URL a task is handling
    wake_at,            \* when a task's asyncio.sleep ends
    begun,              \* per domain: how many static fetches have begun
    last_begin,         \* per domain: when the latest one began, and the
                        \* delay acquire computed for it
    last_record,        \* the record call just made, and its arguments
    \* RobotsParser, per host
    robots_cache,       \* _cache[domain]
    robots_gets,        \* GETs of the host's robots.txt in flight
    \* tasks running _crawl_page
    rurl,               \* the URL a task was called with
    allowed,            \* whether can_fetch has returned True for it
    \* URLNormalizer
    nurl,               \* the URL normalize is given next
    napplied,           \* how many times normalize has been applied to it
    \* CrawlerEngine: configuration, start and stop, resources
    render_mode,        \* crawl_config.render_mode
    start_pc,           \* where the task running start() is
    stops,              \* calls of stop() made by the caller of the engine
    client_closes,      \* calls of client.aclose()
    renderer_closes,    \* calls of playwright_renderer.close()
    browser,            \* PlaywrightRenderer._browser
    \* _crawl_page, per task
    fetch_result,       \* fetch_result
    html,               \* html
    \* the sink
    sunk,               \* the page records handed to save_page
    \* RobotsParser called on its own
    fetch_time,         \* per host: RobotsData.fetch_time, in milliseconds
    rcall,              \* the last call made and whether it issued a GET
    \* ContentDeduplicator
    exact_hashes,       \* _exact_hashes: content hash -> url (NoUrl: absent)
    simhashes,          \* _simhashes: url -> fingerprint (NoFingerprint: absent)
    duplicate_count,    \* _duplicate_count
    dresult,            \* the last check call and the result it returned
    \* JSONOutput
    batch_lists,        \* the list objects made for current_batch, in order
    current_batch,      \* which of them self.current_batch refers to
    batch_count,        \* batch_count
    total_pages,        \* total_pages; the pages saved are 1..total_pages
    files,              \* the pages in batch_NNNN.json, per batch number
    sink_pc,            \* where each task using the sink is
    sink_data           \* flush, per task: the data dict and json_str

frontierVars == <<queue, seen_urls, crawled_urls, failed_urls, not_empty, clock>>
vars == <<max_depth, max_urls, respect_robots_txt, follow_external_links,
          now, last_request_time, current_delay, consecutive_errors,
          request_count, rl_lock, rpc, rdom, wake_at, begun, last_begin,
          last_record, robots_cache, robots_gets, rurl, allowed,
          nurl, napplied, render_mode, start_pc, stops, client_closes,
          renderer_closes, browser, fetch_result, html, sunk,
          fetch_time, rcall,
          exact_hashes, simhashes, duplicate_count, dresult,
          batch_lists, current_batch, batch_count, total_pages, files,
          sink_pc, sink_data,
          queue, seen_urls, crawled_urls, failed_urls,
          not_empty, clock, pc, entry, running, site, pending, stats,
          lastOp, accepted, delivered>>

\* ------------------------------------------------------------- URLEntry

URLEntry(priority, depth, url, discovered_at) ==
    [priority |-> priority, depth |-> depth, url |-> url,
     discovered_at |-> discovered_at]

NoEntry == URLEntry(-1, -1, "", -1)

LessByTuple(a, b) ==
    \/ a.priority < b.priority
    \/ a.priority = b.priority /\ a.depth < b.depth
    \/ a.priority = b.priority /\ a.depth = b.depth
       /\ a.discovered_at < b.discovered_at

\* @dataclass(order=True): only `priority` is a compare field.
EntryLess(a, b) == a.priority < b.priority

\* --------------------------------------------------------------- heapq
\* Positions are 0-based as in heapq; heap[pos + 1] is the element there.

RECURSIVE siftdown(_, _, _, _)
siftdown(heap, startpos, pos, newitem) ==
    IF pos > startpos
    THEN LET parentpos == (pos - 1) \div 2
             parent == heap[parentpos + 1]
         IN  IF EntryLess(newitem, parent)
             THEN siftdown([heap EXCEPT ![pos + 1] = parent],
                           startpos, parentpos, newitem)
             ELSE [heap EXCEPT ![pos + 1] = newitem]
    ELSE [heap EXCEPT ![pos + 1] = newitem]

RECURSIVE siftup(_, _, _, _)
siftup(heap, startpos, pos, newitem) ==
    LET endpos == Len(heap)
        childpos == 2 * pos + 1
    IN  IF childpos < endpos
        THEN LET rightpos == childpos + 1
                 c == IF rightpos < endpos
                         /\ ~EntryLess(heap[childpos + 1], heap[rightpos + 1])
                      THEN rightpos ELSE childpos
             IN  siftup([heap EXCEPT ![pos + 1] = heap[c + 1]],
                        startpos, c, newitem)
        ELSE siftdown([heap EXCEPT ![pos + 1] = newitem],
                      startpos, pos, newitem)

heappush(heap, item) ==
    siftdown(Append(heap, item), 0, Len(heap), item)

\* heappop: the item returned ...
heappop_item(heap) ==
    IF Len(heap) > 1 THEN heap[1] ELSE heap[Len(heap)]

heappop_peek(heap) == heap

\* ... and the heap left behind.
heappop_rest(heap) ==
    LET lastelt == heap[Len(heap)]
        rest == SubSeq(heap, 1, Len(heap) - 1)
    IN  IF Len(rest) > 0
        THEN siftup([rest EXCEPT ![1] = lastelt], 0, 0, lastelt)
        ELSE rest

\* ------------------------------------------------------------ URLFrontier

Priorities == {CRITICAL, HIGH, NORMAL, LOW, DEFERRED}

Op(op, url, depth, priority, ret) ==
    [op |-> op, url |-> url, depth |-> depth, priority |-> priority,
     ret |-> ret]

NoOp == Op("none", "", -1, -1, FALSE)

DepthOverOffByOne(depth) == depth >= max_depth

\* add, line 86: depth > self._max_depth
DepthOver(depth) == depth > max_depth

QueueFullOffByOne == Len(queue) > max_urls

\* add, line 90: len(self._queue) >= self._max_urls
QueueFull == Len(queue) >= max_urls

SeenAddForgotten(uhash) == seen_urls

SeenAddAlone(uhash) == {uhash}

\* add, line 94: self._seen_urls.add(uhash)
SeenAdd(uhash) == seen_urls \cup {uhash}

AddResultUnseen(url, depth) ==
    IF DepthOver(depth) THEN FALSE
    ELSE IF QueueFull THEN FALSE
    ELSE TRUE

\* add, lines 78-91 and 109: the value add returns.
AddResult(url, depth) ==
    IF url_hash(url) \in seen_urls THEN FALSE
    ELSE IF DepthOver(depth) THEN FALSE
    ELSE IF QueueFull THEN FALSE
    ELSE TRUE

SeenBeforeChecks(url, depth) ==
    IF url_hash(url) \in seen_urls THEN seen_urls ELSE SeenAdd(url_hash(url))

\* add, lines 78-94: the hash joins the seen set after the three tests passed.
SeenAfterAdd(url, depth) ==
    IF AddResult(url, depth) THEN SeenAdd(url_hash(url)) ELSE seen_urls

\* URLFrontier.add; crawled_urls and failed_urls are not touched.
FrontierAdd(url, depth, priority) ==
    /\ seen_urls' = SeenAfterAdd(url, depth)
    /\ IF AddResult(url, depth)
       THEN /\ queue' = heappush(queue, URLEntry(priority, depth, url, clock))
            /\ clock' = clock + 1
            /\ not_empty' = TRUE
            /\ accepted' = accepted \cup {url}
       ELSE UNCHANGED <<queue, clock, not_empty, accepted>>
    /\ lastOp' = Op("add", url, depth, priority, AddResult(url, depth))

is_empty_never == FALSE

\* URLFrontier.is_empty, lines 166-168
is_empty == Len(queue) = 0

EventKeptAfterPop(rest) == not_empty

\* get, lines 139-140: the event is cleared when the pop emptied the queue.
EventAfterPop(rest) == IF Len(rest) = 0 THEN FALSE ELSE not_empty

\* URLFrontier.get, lines 132-142: the locked part, run by task w.
FrontierGetLocked(w) ==
    IF Len(queue) = 0
    THEN /\ not_empty' = FALSE
         /\ entry' = [entry EXCEPT ![w] = NoEntry]
         /\ lastOp' = Op("get", "", -1, -1, FALSE)
         /\ UNCHANGED <<queue, delivered>>
    ELSE LET e == heappop_item(queue)
             rest == heappop_rest(queue)
         IN  /\ queue' = rest
             /\ not_empty' = EventAfterPop(rest)
             /\ entry' = [entry EXCEPT ![w] = e]
             /\ delivered' = [delivered EXCEPT ![e.url] = @ + 1]
             /\ lastOp' = Op("get", e.url, e.depth, e.priority, TRUE)

\* URLFrontier.mark_crawled
FrontierMarkCrawled(url) ==
    /\ crawled_urls' = crawled_urls \cup {url_hash(url)}
    /\ lastOp' = NoOp

\* mark_failed, line 153: the incremented count
FailCount(uhash) == failed_urls[uhash] + 1

ShouldRetryInclusive(count) == count <= max_retries

\* mark_failed, line 154: the value returned
ShouldRetry(count) == count < max_retries

\* URLFrontier.mark_failed
FrontierMarkFailed(url) ==
    /\ failed_urls' = [failed_urls EXCEPT ![url_hash(url)] = FailCount(url_hash(url))]
    /\ lastOp' = Op("mark_failed", url, -1, -1,
                    ShouldRetry(FailCount(url_hash(url))))

\* --------------------------------------------------- AdaptiveRateLimiter
\* Times and delays are in milliseconds.

\* CrawlConfig: requests_per_second = 2.0, min_delay = 0.5, max_delay = 3.0
requests_per_second == 2
min_delay == 500
max_delay == 3000
\* DomainState.current_delay: float = 1.0
default_delay == 1000
\* AdaptiveRateLimiter(jitter=0.3), in percent
jitter == 30
\* CrawlConfig.adaptive_delay
adaptive == TRUE

base_delay == 1000 \div requests_per_second

Min(a, b) == IF a < b THEN a ELSE b
Max(a, b) == IF a > b THEN a ELSE b

Domains == {"a.test", "b.test"}
NoDomain == ""

Begin(t, delay) == [t |-> t, delay |-> delay]
NoBegin == Begin(-1, -1)

Record(domain, success, status_code) ==
    [domain |-> domain, success |-> success, status_code |-> status_code]
NoRecord == Record(NoDomain, FALSE, -1)

\* time.time() when the crawl starts: last_request_time is 0.0 until the
\* first record, so the first acquire of a domain sees elapsed >= any delay.
StartTime == max_delay

\* _calculate_delay
calculate_delay(d) == IF adaptive THEN current_delay[d] ELSE base_delay

\* DomainState.record_request, lines 33-43: consecutive_errors afterwards
ErrorsAfter(errors, success) == IF success THEN 0 ELSE errors + 1

adjust_delay_429_doubles(delay, errors, status_code, lo, hi) ==
    IF status_code = 429 \/ status_code >= 500 \/ errors >= 3
    THEN Min(delay * 2, hi)
    ELSE IF errors = 0 /\ status_code < 400
         THEN Max((delay * 95) \div 100, lo)
    ELSE delay

adjust_delay_after_3_errors(delay, errors, status_code, lo, hi) ==
    IF status_code = 429 THEN Min(delay * 3, hi)
    ELSE IF status_code >= 500 THEN Min(delay * 2, hi)
    ELSE IF errors > 3 THEN Min(delay * 2, hi)
    ELSE IF errors = 0 /\ status_code < 400
         THEN Max((delay * 95) \div 100, lo)
    ELSE delay

\* _adjust_delay, lines 114-137, of a limiter built with min_delay = lo and
\* max_delay = hi: the new current_delay (x 0.95 rounded down to a
\* millisecond).  errors is consecutive_errors as record_request left it.
adjust_delay_limits(delay, errors, status_code, lo, hi) ==
    IF status_code = 429 THEN Min(delay * 3, hi)
    ELSE IF status_code >= 500 THEN Min(delay * 2, hi)
    ELSE IF errors >= 3 THEN Min(delay * 2, hi)
    ELSE IF errors = 0 /\ status_code < 400
         THEN Max((delay * 95) \div 100, lo)
    ELSE delay

\* _adjust_delay of the engine's limiter
adjust_delay(delay, errors, status_code) ==
    adjust_delay_limits(delay, errors, status_code, min_delay, max_delay)

LockFreeAlways(d) == TRUE

\* acquire, line 70: `async with self._locks[domain]` goes on when the lock
\* is free
LockFree(d) == rl_lock[d] = 0

\* acquire, lines 79-83: the sleeps random.uniform can give for `remaining`
\* (the two ends and the middle of the interval)
ActualDelays(remaining) ==
    LET jitter_amount == (remaining * jitter) \div 100
    IN  {Max(0, remaining - jitter_amount), remaining, remaining + jitter_amount}

\* StaticFetcher.fetch: (success, status_code) of a result
FetchResults ==
    {[success |-> TRUE, status_code |-> 200],
     [success |-> FALSE, status_code |-> 404],
     [success |-> FALSE, status_code |-> 429],
     [success |-> FALSE, status_code |-> 500],
     [success |-> FALSE, status_code |-> 0]}

\* ----------------------------------------------------------- RobotsParser

\* urlparse(url).netloc
netloc(url) ==
    IF url \in {Ext, Ext2, ExtPrivate} \cup ExtLinks THEN "b.test"
    ELSE "a.test"

\* The robots.txt files a host may serve.
StarBody == "User-agent: *|Disallow: /private|Crawl-delay: 5"
IawicBody == "User-agent: IAWIC|Disallow: /private"
SlowBody == "User-agent: *|Crawl-delay: 1"

Response(status_code, text) == [status_code |-> status_code, text |-> text]

\* What `await client.get(robots_url)` gives (status 0: it raised).
RobotsResponses ==
    {Response(200, StarBody), Response(200, IawicBody),
     Response(200, SlowBody), Response(404, ""),
     Response(410, ""), Response(500, ""), Response(0, "")}

\* An entry of _cache: the RobotsData and, through raw_content, the parser
\* fed with it.  crawl_delay is in milliseconds, 0 for None.
RobotsData(raw_content, crawl_delay, is_loaded) ==
    [cached |-> TRUE, raw_content |-> raw_content,
     crawl_delay |-> crawl_delay, is_loaded |-> is_loaded]

\* domain not in self._cache
NotCached ==
    [cached |-> FALSE, raw_content |-> "", crawl_delay |-> 0,
     is_loaded |-> FALSE]

\* _extract_crawl_delay
extract_crawl_delay(content) ==
    IF content = StarBody THEN 5000
    ELSE IF content = SlowBody THEN 1000
    ELSE 0

ParsedFailureNotCached(response) ==
    IF response.status_code = 200
    THEN RobotsData(response.text, extract_crawl_delay(response.text), TRUE)
    ELSE NotCached

\* fetch_and_parse, lines 66-135: the entry cached for a response
Parsed(response) ==
    IF response.status_code = 200
    THEN RobotsData(response.text, extract_crawl_delay(response.text), TRUE)
    ELSE IF response.status_code \in {404, 410}
    THEN RobotsData("", 0, TRUE)
    ELSE RobotsData("", 0, FALSE)

path_private(url) == url \in {Private, ExtPrivate}

\* RobotFileParser.can_fetch(useragent, url) after parse(content): the first
\* group naming the agent decides, then the `*` group, else allowed.  A
\* group naming IAWIC does not apply to the agent "*".
parser_can_fetch(content, useragent, url) ==
    IF content = StarBody THEN ~path_private(url)
    ELSE IF content = IawicBody
    THEN ~(useragent = "IAWIC" /\ path_private(url))
    ELSE TRUE

\* RobotsParser(user_agent="*"), as CrawlerEngine constructs it
robots_user_agent == "*"

\* RobotsParser.is_allowed, on the entry cached for the URL's host
is_allowed(data, url) ==
    IF ~data.cached THEN TRUE
    ELSE IF data.raw_content = "" THEN TRUE
    ELSE parser_can_fetch(data.raw_content, robots_user_agent, url)

\* RobotsParser(cache_ttl = 3600), in milliseconds
cache_ttl == 3600000

\* A call of the parser: which method, with which URL and user agent, the
\* URL's host, whether the call issued a GET of the host's robots.txt, and
\* what can_fetch returned (TRUE for the other methods).
RCall(op, url, user_agent, get, ret) ==
    [op |-> op, url |-> url, user_agent |-> user_agent,
     domain |-> IF url = "" THEN "" ELSE netloc(url), get |-> get, ret |-> ret]
NoCall == RCall("none", "", "", FALSE, TRUE)

\* fetch_and_parse, lines 61-64: the cached record is returned
cache_fresh(data, fetched_at, t) ==
    data.cached /\ t - fetched_at < cache_ttl

\* can_fetch and get_crawl_delay, lines 219-220 and 233-234: the record
\* they answer from without calling fetch_and_parse
cache_present(data, fetched_at, t) == data.cached

\* set_crawl_delay, line 142: the new current_delay
set_crawl_delay(delay) == Max(delay, min_delay)

\* ----------------------------------------------------------- URLNormalizer
\* A URL string is "https://a.test" followed by a sequence of characters,
\* and normalize is modelled on that sequence: the scheme and the host are
\* lower case, carry no port and no escape, and come out as they went in.
\* The characters of the model: % 2 5 & = ? / q and, from escapes, " R U.

\* ord(c)
ord(c) ==
    CASE c = "\"" -> 34 [] c = "%" -> 37 [] c = "&" -> 38 [] c = "/" -> 47
      [] c = "2" -> 50 [] c = "5" -> 53 [] c = "=" -> 61 [] c = "?" -> 63
      [] c = "R" -> 82 [] c = "U" -> 85 [] c = "q" -> 113

\* str < str
RECURSIVE StrLess(_, _)
StrLess(a, b) ==
    IF b = <<>> THEN FALSE
    ELSE IF a = <<>> THEN TRUE
    ELSE IF ord(Head(a)) # ord(Head(b)) THEN ord(Head(a)) < ord(Head(b))
    ELSE StrLess(Tail(a), Tail(b))

\* The hexadecimal digits among the characters of the model.
hex_digits == {"2", "5"}

\* bytes.fromhex(a + b).decode()
unhex(a, b) ==
    CASE a = "2" /\ b = "2" -> "\""
      [] a = "2" /\ b = "5" -> "%"
      [] a = "5" /\ b = "2" -> "R"
      [] a = "5" /\ b = "5" -> "U"

\* urllib.parse.unquote: one pass, every %XX with two hex digits decoded
RECURSIVE unquote(_)
unquote(string) ==
    IF string = <<>> THEN <<>>
    ELSE IF /\ string[1] = "%"
            /\ Len(string) >= 3
            /\ string[2] \in hex_digits
            /\ string[3] \in hex_digits
         THEN <<unhex(string[2], string[3])>>
              \o unquote(SubSeq(string, 4, Len(string)))
    ELSE <<string[1]>> \o unquote(Tail(string))

\* quote never escapes letters and digits (and _ . - ~)
always_safe == {"2", "5", "R", "U", "q"}

\* "%{:02X}" of the characters quote escapes in the model
escape(c) ==
    CASE c = "%" -> <<"%", "2", "5">>
      [] c = "\"" -> <<"%", "2", "2">>

\* urllib.parse.quote(string, safe)
RECURSIVE quote(_, _)
quote(string, safe) ==
    IF string = <<>> THEN <<>>
    ELSE (IF Head(string) \in always_safe \cup safe
          THEN <<Head(string)>> ELSE escape(Head(string)))
         \o quote(Tail(string), safe)

\* safe="/:@!$&'()*+,;=-._~" of _normalize_path, line 158
path_safe == {"/", "&", "="}

\* quote_plus(string): no character but the always-safe ones is kept
quote_plus(string) == quote(string, {})

\* str.find(c) + 1: the first position of c, 0 when absent
Find(string, c) ==
    IF \E i \in 1..Len(string) : string[i] = c
    THEN CHOOSE i \in 1..Len(string) :
             string[i] = c /\ \A j \in 1..(i - 1) : string[j] # c
    ELSE 0

\* str.split(sep)
RECURSIVE split(_, _)
split(string, sep) ==
    LET i == Find(string, sep)
    IN  IF i = 0 THEN <<string>>
        ELSE <<SubSeq(string, 1, i - 1)>>
             \o split(SubSeq(string, i + 1, Len(string)), sep)

\* re.sub(r"/+", "/", path), line 136
RECURSIVE collapse_slashes(_)
collapse_slashes(path) ==
    IF Len(path) < 2 THEN path
    ELSE IF path[1] = "/" /\ path[2] = "/" THEN collapse_slashes(Tail(path))
    ELSE <<path[1]>> \o collapse_slashes(Tail(path))

\* str.rstrip("/")
RECURSIVE rstrip_slash(_)
rstrip_slash(path) ==
    IF path # <<>> /\ path[Len(path)] = "/"
    THEN rstrip_slash(SubSeq(path, 1, Len(path) - 1))
    ELSE path

\* _normalize_path.  No segment of the model's paths is "." or "..", so
\* lines 139-149 join the segments they split.
normalize_path(path) ==
    LET collapsed == collapse_slashes(path)
        rooted == IF collapsed = <<>> \/ collapsed[1] # "/"
                  THEN <<"/">> \o collapsed ELSE collapsed
        stripped == IF rooted # <<"/">> /\ rooted[Len(rooted)] = "/"
                    THEN rstrip_slash(rooted) ELSE rooted
    IN  quote(stripped, path_safe)

Pair(key, value) == [key |-> key, value |-> value]

\* parse_qsl(query, keep_blank_values=True): the (name, value) pairs
RECURSIVE parse_pairs(_)
parse_pairs(name_values) ==
    IF name_values = <<>> THEN <<>>
    ELSE LET name_value == Head(name_values)
             i == Find(name_value, "=")
             name == IF i = 0 THEN name_value ELSE SubSeq(name_value, 1, i - 1)
             value == IF i = 0 THEN <<>>
                      ELSE SubSeq(name_value, i + 1, Len(name_value))
         IN  (IF name_value = <<>> THEN <<>>
              ELSE <<Pair(unquote(name), unquote(value))>>)
             \o parse_pairs(Tail(name_values))

parse_qsl(query) == parse_pairs(split(query, "&"))

\* str.lower() of a character
lower_char(c) == IF c = "R" THEN "r" ELSE IF c = "U" THEN "u" ELSE c

lower(string) == [i \in 1..Len(string) |-> lower_char(string[i])]

\* TRACKING_PARAMS: its members short enough to matter here
TRACKING_PARAMS == {<<"s", "i">>}

\* sorted(strings), for a set of strings
RECURSIVE sorted(_)
sorted(strings) ==
    IF strings = {} THEN <<>>
    ELSE LET least == CHOOSE x \in strings :
                          \A y \in strings \ {x} : StrLess(x, y)
         IN  <<least>> \o sorted(strings \ {least})

\* sorted(values), for the list of values of one key
RECURSIVE sorted_list(_)
sorted_list(values) ==
    IF values = <<>> THEN <<>>
    ELSE LET i == CHOOSE k \in 1..Len(values) :
                      \A j \in 1..Len(values) : ~StrLess(values[j], values[k])
         IN  <<values[i]>>
             \o sorted_list([j \in 1..(Len(values) - 1) |->
                                IF j < i THEN values[j] ELSE values[j + 1]])

\* the values parse_qs collects for a key, in the order of the query
RECURSIVE values_of(_, _)
values_of(pairs, key) ==
    IF pairs = <<>> THEN <<>>
    ELSE (IF Head(pairs).key = key THEN <<Head(pairs).value>> ELSE <<>>)
         \o values_of(Tail(pairs), key)

RECURSIVE with_key(_, _)
with_key(key, values) ==
    IF values = <<>> THEN <<>>
    ELSE <<Pair(key, Head(values))>> \o with_key(key, Tail(values))

\* _normalize_query, lines 187-190: the parts, key by key
RECURSIVE parts_of(_, _)
parts_of(keys, pairs) ==
    IF keys = <<>> THEN <<>>
    ELSE with_key(Head(keys), sorted_list(values_of(pairs, Head(keys))))
         \o parts_of(Tail(keys), pairs)

\* urlencode(parts)
RECURSIVE urlencode(_)
urlencode(parts) ==
    IF parts = <<>> THEN <<>>
    ELSE quote_plus(Head(parts).key) \o <<"=">> \o quote_plus(Head(parts).value)
         \o (IF Len(parts) > 1 THEN <<"&">> ELSE <<>>)
         \o urlencode(Tail(parts))

\* _normalize_query
normalize_query(query) ==
    IF query = <<>> THEN <<>>
    ELSE LET pairs == parse_qsl(query)
             keys == {pairs[i].key : i \in 1..Len(pairs)}
             kept == {k \in keys : lower(k) \notin TRACKING_PARAMS}
         IN  IF kept = {} THEN <<>>
             ELSE urlencode(parts_of(sorted(kept), pairs))

\* normalize, lines 66-127, on the characters after the host: unquote the
\* whole URL, urlparse it into path and query, put the two back together.
normalize(url) ==
    LET unquoted == unquote(url)
        mark == Find(unquoted, "?")
        parsed_path == IF mark = 0 THEN unquoted
                       ELSE SubSeq(unquoted, 1, mark - 1)
        parsed_query == IF mark = 0 THEN <<>>
                        ELSE SubSeq(unquoted, mark + 1, Len(unquoted))
        path == normalize_path(IF parsed_path = <<>> THEN <<"/">>
                               ELSE parsed_path)
        query == normalize_query(parsed_query)
    IN  IF query = <<>> THEN path ELSE path \o <<"?">> \o query

\* The characters after the host of the spellings of the home page ...
rest_of(url) ==
    CASE url = Root -> <<"/">>
      [] url = SeedBare -> <<>>
      [] url = SeedTracked -> <<"/", "?", "s", "i", "=", "q">>

\* ... and the spelling with these characters after the host.
url_of(rest) ==
    CASE rest = <<"/">> -> Root
      [] rest = <<>> -> SeedBare
      [] rest = <<"/", "?", "s", "i", "=", "q">> -> SeedTracked

\* normalize(url) as a URL of the model.  The other URLs are hrefs that
\* normalize leaves as they are.
normalize_url(url) ==
    IF url \in {Root, SeedBare, SeedTracked}
    THEN url_of(normalize(rest_of(url)))
    ELSE url

\* ---------------------------------------------------------- StaticFetcher

HttpResponse(status_code, text, server) ==
    [status_code |-> status_code, text |-> text, server |-> server]

\* What `await client.get(url, ...)` returns: a page ("content": 1000
\* characters or more, with links), a long page without links ("text"), a
\* short page with links ("stub"), a short captcha page served with status
\* 200, and refusals.
FetchResponses ==
    {HttpResponse(200, "content", ""), HttpResponse(200, "text", ""),
     HttpResponse(200, "stub", ""), HttpResponse(200, "captcha", ""),
     HttpResponse(403, "", ""), HttpResponse(429, "", ""),
     HttpResponse(503, "", "cloudflare"), HttpResponse(500, "", "")}

\* a member of BLOCKED_INDICATORS occurs in the body
has_blocked_indicator(text) == text = "captcha"

\* _detect_blocking
detect_blocking(response) ==
    IF response.status_code = 403 THEN TRUE
    ELSE IF response.status_code = 429 THEN TRUE
    ELSE IF response.status_code = 503 /\ response.server = "cloudflare" THEN TRUE
    ELSE has_blocked_indicator(response.text)

FetchResult(status_code, html_, success, is_blocked) ==
    [status_code |-> status_code, html |-> html_, success |-> success,
     is_blocked |-> is_blocked]

NoResult == FetchResult(-1, "", FALSE, FALSE)

\* fetch, lines 100-118: the result built from a response
result_of(response) ==
    FetchResult(response.status_code, response.text,
                200 <= response.status_code /\ response.status_code < 400,
                detect_blocking(response))

\* fetch, lines 131-180: the GET raised
fetch_error == FetchResult(0, "", FALSE, FALSE)

StaticFetches == {result_of(response) : response \in FetchResponses}
                 \cup {fetch_error}

\* ------------------------------------------------------ rendering decision

RenderModes == {"static", "javascript", "auto"}

\* CrawlerEngine.__init__, lines 83-87: a renderer is built
has_renderer(mode) == mode \in {"javascript", "auto"}

\* len(html) >= 1000
html_long(html_) == html_ \in {"content", "text", "rendered"}

\* '<a' in html
has_anchor(html_) == html_ \in {"content", "stub", "rendered"}

needs_js_render_both(mode, html_) ==
    \/ mode = "javascript"
    \/ mode = "auto" /\ ~html_long(html_) /\ ~has_anchor(html_)

\* _crawl_page, lines 259-266
needs_js_render(mode, html_) ==
    \/ mode = "javascript"
    \/ mode = "auto" /\ (~html_long(html_) \/ ~has_anchor(html_))

is_Exception_never(exc) == FALSE

\* isinstance(exc, Exception), what `except Exception` catches:
\* asyncio.CancelledError derives from BaseException.
is_Exception(exc) == exc # "CancelledError"

\* ------------------------------------------------------ ContentDeduplicator

\* A page text: the characters it has, the characters text.strip() has, the
\* text content_hash normalizes it to (stripped, whitespace runs collapsed,
\* lower case), the shingles SimHash._tokenize cuts it into (named by the
\* lower-case words) and the 64-bit fingerprint SimHash.compute gives for
\* these shingles, as the set of the bits that are 1.
Text(raw_len, stripped_len, normalized, shingles, bits) ==
    [raw_len |-> raw_len, stripped_len |-> stripped_len,
     normalized |-> normalized, shingles |-> shingles, bits |-> bits]

\* SimHash(hash_bits=64)
hash_bits == 64

\* A short text; a text of 49 characters between 11 blanks; a text of 50
\* characters; the same words in upper case and with double blanks; a text
\* whose fingerprint is at distance 9 from that one, and one at distance
\* 10; the same words as the first long text with other punctuation (other
\* content, same shingles); a text on something else.
Texts ==
    {Text(5, 5, "short", "short", {}),
     Text(60, 49, "padded", "padded", 40..50),
     Text(50, 50, "alpha", "alpha", 0..31),
     Text(58, 50, "alpha", "alpha", 0..31),
     Text(50, 50, "alpha!", "alpha", 0..31),
     Text(70, 70, "near", "near", 9..31),
     Text(70, 70, "far", "far", 10..31),
     Text(90, 90, "other", "other", 32..63)}

\* sha256_hash: a digest, taken to be collision free.
sha256_hash(content) == <<"sha256", content>>

\* content_hash(text)
content_hash(text) == sha256_hash(text.normalized)

ContentHashes == {content_hash(text) : text \in Texts}

\* SimHash.compute(text)
simhash_compute(text) == text.bits

NoFingerprint == {-1}

\* SimHash.hamming_distance
hamming_distance(hash1, hash2) ==
    Cardinality((hash1 \ hash2) \cup (hash2 \ hash1))

\* ContentDeduplicator(similarity_threshold = 0.85), in percent
similarity_threshold == 85

\* similarity(hash1, hash2) >= threshold, with similarity
\* 1.0 - distance / hash_bits
similar(hash1, hash2) ==
    (hash_bits - hamming_distance(hash1, hash2)) * 100
        >= similarity_threshold * hash_bits

\* The URLs check is called with.
DedupUrls == {Root, P1}

is_short_raw(text) == text.raw_len < 50

\* check, line 38: not text_content or len(text_content.strip()) < 50
is_short(text) == text.stripped_len < 50

\* _check_exact, lines 66-68
exact_duplicate(text) == exact_hashes[content_hash(text)] # NoUrl

\* _check_simhash, lines 92-103: best_similarity >= self._threshold
near_duplicate(text) ==
    \E url \in DedupUrls :
       /\ simhashes[url] # NoFingerprint
       /\ similar(simhash_compute(text), simhashes[url])

DeduplicationResult(url, text, is_duplicate, method) ==
    [url |-> url, text |-> text, is_duplicate |-> is_duplicate,
     method |-> method]

NoCheck == DeduplicationResult(NoUrl, Text(0, 0, "", "", {}), FALSE, "none")

\* ------------------------------------------------------------- JSONOutput
\* src/storage/json_output.py.  A page is named by its number in the order
\* of the save_page calls.  current_batch is a reference to a list object:
\* flush puts that reference in its data dict and rebinds current_batch to
\* a new list when it is done.

\* The tasks that use the sink: the workers, and main (task 0) for close.
MainTask == 0
SinkTasks == Workers \cup {MainTask}

\* flush, lines 70-75 and 79-82: data["batch"], data["pages"] and json_str
FlushData(batch, pages, json_str) ==
    [batch |-> batch, pages |-> pages, json_str |-> json_str]

NoFlush == FlushData(0, 0, <<>>)

\* JSONOutput.__init__, lines 36-41
SinkConstructed ==
    /\ batch_lists = << <<>> >>
    /\ current_batch = 1
    /\ batch_count = 0
    /\ total_pages = 0
    /\ files = [b \in 1..(MaxSaves + 1) |-> <<>>]
    /\ sink_pc = [t \in SinkTasks |-> "idle"]
    /\ sink_data = [t \in SinkTasks |-> NoFlush]

\* flush, lines 63-78, run by task t up to the await of aiofiles.open; lists
\* is batch_lists as the caller left it, after is where t goes when the
\* batch is empty.
FlushBegin(t, lists, after) ==
    IF Len(lists[current_batch]) = 0
    THEN /\ sink_pc' = [sink_pc EXCEPT ![t] = after]
         /\ UNCHANGED <<batch_count, sink_data>>
    ELSE /\ batch_count' = batch_count + 1
         /\ sink_data' = [sink_data EXCEPT
                              ![t] = FlushData(batch_count + 1, current_batch, <<>>)]
         /\ sink_pc' = [sink_pc EXCEPT ![t] = "open"]

\* flush, lines 78-83: the file is open; the list data["pages"] refers to
\* is serialized as it is now, and the task awaits f.write.
FlushDumps(t) ==
    /\ sink_pc[t] = "open"
    /\ sink_data' = [sink_data EXCEPT
                         ![t].json_str = batch_lists[sink_data[t].pages]]
    /\ sink_pc' = [sink_pc EXCEPT ![t] = "write"]
    /\ UNCHANGED <<batch_lists, current_batch, batch_count, total_pages, files>>

\* flush, lines 83-93: the file holds json_str; current_batch is bound to a
\* new empty list.
FlushWritten(t) ==
    /\ sink_pc[t] = "write"
    /\ files' = [files EXCEPT ![sink_data[t].batch] = sink_data[t].json_str]
    /\ batch_lists' = Append(batch_lists, <<>>)
    /\ current_batch' = Len(batch_lists) + 1
    /\ sink_pc' = [sink_pc EXCEPT ![t] = IF t = MainTask THEN "closed" ELSE "idle"]
    /\ sink_data' = [sink_data EXCEPT ![t] = NoFlush]
    /\ UNCHANGED <<batch_count, total_pages>>

\* JSONOutput.save_page, lines 54-59, called by worker w from
\* extract_and_store (main.py, lines 140-154) while main has not reached
\* its finally block.
SavePage(w) ==
    /\ sink_pc[w] = "idle"
    /\ sink_pc[MainTask] = "idle"
    /\ total_pages < MaxSaves
    /\ LET page == total_pages + 1
           lists == [batch_lists EXCEPT ![current_batch] = Append(@, page)]
       IN  /\ batch_lists' = lists
           /\ total_pages' = page
           /\ IF Len(lists[current_batch]) >= BatchSize
              THEN FlushBegin(w, lists, "idle")
              ELSE UNCHANGED <<batch_count, sink_data, sink_pc>>
    /\ UNCHANGED <<current_batch, files>>

\* JSONOutput.close, lines 150-153, called by main (main.py, line 186)
\* after crawler.start has returned: no worker is left.
Close ==
    /\ sink_pc[MainTask] = "idle"
    /\ \A w \in Workers : sink_pc[w] = "idle"
    /\ FlushBegin(MainTask, batch_lists, "closed")
    /\ UNCHANGED <<batch_lists, current_batch, total_pages, files>>

\* ------------------------------------------------------------------ Init

\* URLFrontier.__init__ (lines 56-61) and CrawlerEngine.__init__ (93-101)
Constructed ==
    /\ queue = <<>>
    /\ seen_urls = {}
    /\ crawled_urls = {}
    /\ failed_urls = [h \in Hashes |-> 0]
    /\ not_empty = FALSE
    /\ clock = 0
    /\ entry = [w \in Workers |-> NoEntry]
    /\ running = FALSE
    /\ site = "none"
    /\ pending = [w \in Workers |-> <<>>]
    /\ stats = [pages_crawled |-> 0, pages_failed |-> 0]
    /\ lastOp = NoOp
    /\ accepted = {}
    /\ delivered = [u \in Urls |-> 0]
    /\ now = StartTime
    /\ last_request_time = [d \in Domains |-> 0]
    /\ current_delay = [d \in Domains |-> default_delay]
    /\ consecutive_errors = [d \in Domains |-> 0]
    /\ request_count = [d \in Domains |-> 0]
    /\ rl_lock = [d \in Domains |-> 0]
    /\ rpc = [w \in Workers |-> "ready"]
    /\ rdom = [w \in Workers |-> NoDomain]
    /\ wake_at = [w \in Workers |-> 0]
    /\ begun = [d \in Domains |-> 0]
    /\ last_begin = [d \in Domains |-> NoBegin]
    /\ last_record = NoRecord
    /\ robots_cache = [d \in Domains |-> NotCached]
    /\ robots_gets = [d \in Domains |-> 0]
    /\ rurl = [w \in Workers |-> NoUrl]
    /\ allowed = [w \in Workers |-> FALSE]

\* CrawlerEngine.__init__, lines 83-101, and PlaywrightRenderer.__init__
RunConstructed ==
    /\ start_pc = "idle"
    /\ stops = 0
    /\ client_closes = 0
    /\ renderer_closes = 0
    /\ browser = "none"
    /\ fetch_result = [w \in Workers |-> NoResult]
    /\ html = [w \in Workers |-> ""]
    /\ sunk = {}

\* ContentDeduplicator.__init__, lines 30-35
DedupConstructed ==
    /\ exact_hashes = [h \in ContentHashes |-> NoUrl]
    /\ simhashes = [url \in DedupUrls |-> NoFingerprint]
    /\ duplicate_count = 0
    /\ dresult = NoCheck

\* RobotsParser.__init__, lines 40-48
ExtraConstructed ==
    /\ fetch_time = [d \in Domains |-> 0]
    /\ rcall = NoCall
    /\ DedupConstructed
    /\ SinkConstructed

\* No URL is being normalized.
NormalizerIdle ==
    /\ nurl = <<>>
    /\ napplied = 0

engineVars == <<running, site, pending, stats>>
configVars == <<max_depth, max_urls, respect_robots_txt, follow_external_links>>
rateVars == <<now, last_request_time, current_delay, consecutive_errors,
              request_count, rl_lock, rpc, rdom, wake_at, begun, last_begin,
              last_record>>
robotsVars == <<robots_cache, robots_gets, rurl, allowed>>
normVars == <<nurl, napplied>>
runVars == <<render_mode, start_pc, stops, client_closes, renderer_closes,
             browser, fetch_result, html, sunk>>
dedupVars == <<exact_hashes, simhashes, duplicate_count, dresult>>
sinkVars == <<batch_lists, current_batch, batch_count, total_pages, files,
              sink_pc, sink_data>>
extraVars == <<fetch_time, rcall, dedupVars, sinkVars>>
auxVars == <<normVars, runVars, extraVars>>

\* ---------------------------------------------------------- SpecFrontier
\* The frontier under arbitrary callers: any task may call add with any
\* arguments; each consumer calls get in a loop and marks the entry it was
\* given.

InitFrontier ==
    /\ Constructed
    /\ NormalizerIdle
    /\ RunConstructed
    /\ ExtraConstructed
    /\ render_mode = "static"
    /\ respect_robots_txt = TRUE
    /\ follow_external_links = FALSE
    /\ max_depth = MaxDepthCfg
    /\ max_urls \in {1, MaxUrlsCfg}
    /\ pc = [w \in Workers |-> "get_wait"]

AddUrls == {Root, P1, P1Upper}
AddDepths == {0, MaxDepthCfg, MaxDepthCfg + 1}
AddPriorities == {NORMAL, LOW}

FAdd ==
    \E url \in AddUrls, depth \in AddDepths, priority \in AddPriorities :
        /\ FrontierAdd(url, depth, priority)
        /\ UNCHANGED <<crawled_urls, failed_urls, delivered, pc, entry>>
        /\ UNCHANGED <<engineVars, configVars, rateVars, robotsVars, auxVars>>

\* get, line 128: the event is set, the wait returns.
FGetWake(w) ==
    /\ pc[w] = "get_wait"
    /\ not_empty
    /\ pc' = [pc EXCEPT ![w] = "get_locked"]
    /\ lastOp' = NoOp
    /\ UNCHANGED <<frontierVars, entry, accepted, delivered>>
    /\ UNCHANGED <<engineVars, configVars, rateVars, robotsVars, auxVars>>

\* get, lines 129-130: the wait times out, get returns None.
FGetTimeout(w) ==
    /\ pc[w] = "get_wait"
    /\ ~not_empty
    /\ lastOp' = Op("get_timeout", "", -1, -1, FALSE)
    /\ UNCHANGED <<frontierVars, pc, entry, accepted, delivered>>
    /\ UNCHANGED <<engineVars, configVars, rateVars, robotsVars, auxVars>>

\* get, lines 132-142; the caller then holds the entry it was given.
FGetPop(w) ==
    /\ pc[w] = "get_locked"
    /\ FrontierGetLocked(w)
    /\ pc' = [pc EXCEPT ![w] = IF Len(queue) = 0 THEN "get_wait" ELSE "holding"]
    /\ UNCHANGED <<seen_urls, crawled_urls, failed_urls, clock, accepted>>
    /\ UNCHANGED <<engineVars, configVars, rateVars, robotsVars, auxVars>>

\* The holder reports success and lets the entry go.
FMarkCrawled(w) ==
    /\ pc[w] = "holding"
    /\ FrontierMarkCrawled(entry[w].url)
    /\ pc' = [pc EXCEPT ![w] = "get_wait"]
    /\ entry' = [entry EXCEPT ![w] = NoEntry]
    /\ UNCHANGED <<queue, seen_urls, failed_urls, not_empty, clock>>
    /\ UNCHANGED <<accepted, delivered, engineVars, configVars, rateVars, robotsVars, auxVars>>

\* The holder reports a failure; it tries again while mark_failed says so.
FMarkFailed(w) ==
    /\ pc[w] = "holding"
    /\ FrontierMarkFailed(entry[w].url)
    /\ IF ShouldRetry(FailCount(url_hash(entry[w].url)))
       THEN UNCHANGED <<pc, entry>>
       ELSE /\ pc' = [pc EXCEPT ![w] = "get_wait"]
            /\ entry' = [entry EXCEPT ![w] = NoEntry]
    /\ UNCHANGED <<queue, seen_urls, crawled_urls, not_empty, clock>>
    /\ UNCHANGED <<accepted, delivered, engineVars, configVars, rateVars, robotsVars, auxVars>>

NextFrontier ==
    \/ FAdd
    \/ \E w \in Workers : FGetWake(w)
    \/ \E w \in Workers : FGetTimeout(w)
    \/ \E w \in Workers : FGetPop(w)
    \/ \E w \in Workers : FMarkCrawled(w)
    \/ \E w \in Workers : FMarkFailed(w)

SpecFrontier == InitFrontier /\ [][NextFrontier]_vars

\* ------------------------------------------------------------------ Spec
\* A crawl: CrawlerEngine.start(seed) and its worker tasks, on a site whose
\* pages, links and robots rules are fixed and whose fetches and extractions
\* may fail.

Sites == {"chain", "web"}

\* links.internal of the page at url, as LinkExtractor.extract lists them.
InternalLinks(s, url) ==
    IF s = "chain"
    THEN CASE url = Root -> <<P1>>
           [] url = P1 -> <<P2>>
           [] OTHER -> <<>>
    ELSE IF s = "portal"
    THEN CASE url = Root -> <<P1, P2>>
           [] OTHER -> <<>>
    ELSE IF s = "home"
    THEN \* the home page, under each of its spellings, links to "/" and
         \* to "/p1"
         CASE url \in {Root, SeedBare, SeedTracked} -> <<normalize_url(Root), P1>>
           [] OTHER -> <<>>
    ELSE CASE url = Root -> <<P1, P1Upper, Private>>
           [] url = P1 -> <<Root, P2>>
           [] url = P2 -> <<P1>>
           [] OTHER -> <<>>

\* links.external of the page at url.
ExternalLinks(s, url) ==
    IF s = "web" /\ url = Root THEN <<Ext>>
    ELSE IF s = "portal" /\ url = Root
    THEN [i \in 1..NumExternal |-> ExtLink(i)]
    ELSE <<>>

\* The URLs robots.can_fetch(url, "IAWIC") refuses on the site.
Disallowed(s) == IF s = "web" THEN {Private} ELSE {}

Link(url, priority) == [url |-> url, priority |-> priority]

RECURSIVE WithPriority(_, _)
WithPriority(links, priority) ==
    IF links = <<>> THEN <<>>
    ELSE <<Link(Head(links), priority)>> \o WithPriority(Tail(links), priority)

FirstEleven(links) ==
    SubSeq(links, 1, IF Len(links) < 11 THEN Len(links) ELSE 11)

\* external_links[:10], line 366
FirstTen(links) == SubSeq(links, 1, IF Len(links) < 10 THEN Len(links) ELSE 10)

\* _process_links: the add calls it makes, in order.
LinksToOffer(s, url) ==
    WithPriority(InternalLinks(s, url), NORMAL)
    \o (IF follow_external_links
        THEN WithPriority(FirstTen(ExternalLinks(s, url)), DEFERRED)
        ELSE <<>>)

Init ==
    /\ Constructed
    /\ NormalizerIdle
    /\ RunConstructed
    /\ ExtraConstructed
    /\ render_mode = "static"
    /\ max_depth \in 0..MaxDepthCfg
    /\ max_urls \in 1..MaxUrlsCfg
    /\ respect_robots_txt \in BOOLEAN
    /\ follow_external_links \in BOOLEAN
    /\ pc = [w \in Workers |-> "idle"]

BumpStat(name) == [stats EXCEPT ![name] = @ + 1]

\* start, lines 112-133: add the seed and create the worker tasks.
Start ==
    /\ ~running
    /\ \A w \in Workers : pc[w] = "idle"
    /\ running' = TRUE
    /\ site' \in Sites
    /\ FrontierAdd(Root, 0, CRITICAL)
    /\ pc' = [w \in Workers |-> "loop"]
    /\ UNCHANGED <<crawled_urls, failed_urls, entry, pending, stats, delivered>>
    /\ UNCHANGED <<configVars, rateVars, robotsVars, auxVars>>

\* _worker, lines 164-171, up to the lock of get (url_frontier lines 127-130).
WorkerLoop(w) ==
    /\ pc[w] = "loop"
    /\ IF ~running
       THEN /\ pc' = [pc EXCEPT ![w] = "done"]
            /\ lastOp' = NoOp
       ELSE IF not_empty
       THEN /\ pc' = [pc EXCEPT ![w] = "get_locked"]
            /\ lastOp' = NoOp
       ELSE \* the wait times out: get returns None
            /\ pc' = [pc EXCEPT ![w] = IF is_empty THEN "done" ELSE "loop"]
            /\ lastOp' = Op("get_timeout", "", -1, -1, FALSE)
    /\ UNCHANGED <<frontierVars, entry, accepted, delivered>>
    /\ UNCHANGED <<engineVars, configVars, rateVars, robotsVars, auxVars>>

\* get, lines 132-142, and _worker lines 167-174.
WorkerGet(w) ==
    /\ pc[w] = "get_locked"
    /\ FrontierGetLocked(w)
    /\ pc' = [pc EXCEPT ![w] = IF Len(queue) = 0 THEN "done" ELSE "robots"]
    /\ UNCHANGED <<seen_urls, crawled_urls, failed_urls, clock, accepted>>
    /\ UNCHANGED <<engineVars, configVars, rateVars, robotsVars, auxVars>>

\* _worker, lines 191-192: _crawl_page returned None.
ResultNone(w) ==
    /\ stats' = BumpStat("pages_failed")
    /\ pc' = [pc EXCEPT ![w] = "loop"]
    /\ entry' = [entry EXCEPT ![w] = NoEntry]

\* _crawl_page, lines 219-229: the robots check.
CrawlRobots(w) ==
    /\ pc[w] = "robots"
    /\ IF respect_robots_txt /\ entry[w].url \in Disallowed(site)
       THEN ResultNone(w)
       ELSE /\ pc' = [pc EXCEPT ![w] = "fetch"]
            /\ UNCHANGED <<stats, entry>>
    /\ lastOp' = NoOp
    /\ UNCHANGED <<frontierVars, accepted, delivered>>
    /\ UNCHANGED <<running, site, pending, configVars, rateVars, robotsVars, auxVars>>

FetchOutcomes == {"ok", "http_error", "fetch_exception"}

\* _crawl_page, lines 231-281: acquire, the static fetch, record, render.
CrawlFetch(w) ==
    /\ pc[w] = "fetch"
    /\ \E outcome \in FetchOutcomes :
          IF outcome = "ok"
          THEN /\ pc' = [pc EXCEPT ![w] = "extract"]
               /\ UNCHANGED <<stats, entry>>
          ELSE ResultNone(w)
    /\ lastOp' = NoOp
    /\ UNCHANGED <<frontierVars, accepted, delivered>>
    /\ UNCHANGED <<running, site, pending, configVars, rateVars, robotsVars, auxVars>>

\* _crawl_page, lines 283-286: _extract_page_data returns the page ...
CrawlExtract(w) ==
    /\ pc[w] = "extract"
    /\ pc' = [pc EXCEPT ![w] = "mark_crawled"]
    /\ lastOp' = NoOp
    /\ UNCHANGED <<frontierVars, entry, accepted, delivered>>
    /\ UNCHANGED <<engineVars, configVars, rateVars, robotsVars, auxVars>>

\* ... or raises, and _worker catches it (lines 194-196).
CrawlExtractRaises(w) ==
    /\ pc[w] = "extract"
    /\ stats' = BumpStat("pages_failed")
    /\ pc' = [pc EXCEPT ![w] = "mark_failed"]
    /\ lastOp' = NoOp
    /\ UNCHANGED <<frontierVars, entry, accepted, delivered>>
    /\ UNCHANGED <<running, site, pending, configVars, rateVars, robotsVars, auxVars>>

\* _worker, lines 180-190: mark_crawled, then the links to offer.
WorkerMarkCrawled(w) ==
    /\ pc[w] = "mark_crawled"
    /\ FrontierMarkCrawled(entry[w].url)
    /\ stats' = BumpStat("pages_crawled")
    /\ IF LinksToOffer(site, entry[w].url) # <<>>
       THEN /\ pending' = [pending EXCEPT ![w] = LinksToOffer(site, entry[w].url)]
            /\ pc' = [pc EXCEPT ![w] = "links"]
            /\ UNCHANGED entry
       ELSE /\ pc' = [pc EXCEPT ![w] = "loop"]
            /\ entry' = [entry EXCEPT ![w] = NoEntry]
            /\ UNCHANGED pending
    /\ UNCHANGED <<queue, seen_urls, failed_urls, not_empty, clock>>
    /\ UNCHANGED <<running, site, accepted, delivered, configVars, rateVars, robotsVars, auxVars>>

ChildDepthSame(depth) == depth

\* the depth _worker passes to _process_links (line 189)
ChildDepth(depth) == depth + 1

\* _process_links, lines 356-373: one add.
WorkerAddLink(w) ==
    /\ pc[w] = "links"
    /\ FrontierAdd(Head(pending[w]).url, ChildDepth(entry[w].depth),
                   Head(pending[w]).priority)
    /\ pending' = [pending EXCEPT ![w] = Tail(@)]
    /\ IF Len(pending[w]) = 1
       THEN /\ pc' = [pc EXCEPT ![w] = "loop"]
            /\ entry' = [entry EXCEPT ![w] = NoEntry]
       ELSE UNCHANGED <<pc, entry>>
    /\ UNCHANGED <<crawled_urls, failed_urls, delivered>>
    /\ UNCHANGED <<running, site, stats, configVars, rateVars, robotsVars, auxVars>>

\* _worker, lines 199-200: mark_failed.
WorkerMarkFailed(w) ==
    /\ pc[w] = "mark_failed"
    /\ FrontierMarkFailed(entry[w].url)
    /\ IF ShouldRetry(FailCount(url_hash(entry[w].url)))
       THEN /\ pc' = [pc EXCEPT ![w] = "retry"]
            /\ UNCHANGED entry
       ELSE /\ pc' = [pc EXCEPT ![w] = "loop"]
            /\ entry' = [entry EXCEPT ![w] = NoEntry]
    /\ UNCHANGED <<queue, seen_urls, crawled_urls, not_empty, clock>>
    /\ UNCHANGED <<accepted, delivered, engineVars, configVars, rateVars, robotsVars, auxVars>>

\* _worker, lines 201-205: the retry add.
WorkerRetry(w) ==
    /\ pc[w] = "retry"
    /\ FrontierAdd(entry[w].url, entry[w].depth, LOW)
    /\ pc' = [pc EXCEPT ![w] = "loop"]
    /\ entry' = [entry EXCEPT ![w] = NoEntry]
    /\ UNCHANGED <<crawled_urls, failed_urls, delivered>>
    /\ UNCHANGED <<engineVars, configVars, rateVars, robotsVars, auxVars>>

\* start, lines 136-143: every worker has returned; stop() clears _running.
StartReturns ==
    /\ running
    /\ \A w \in Workers : pc[w] = "done"
    /\ running' = FALSE
    /\ lastOp' = NoOp
    /\ UNCHANGED <<frontierVars, pc, entry, accepted, delivered>>
    /\ UNCHANGED <<site, pending, stats, configVars, rateVars, robotsVars, auxVars>>

Next ==
    \/ Start
    \/ \E w \in Workers : WorkerLoop(w)
    \/ \E w \in Workers : WorkerGet(w)
    \/ \E w \in Workers : CrawlRobots(w)
    \/ \E w \in Workers : CrawlFetch(w)
    \/ \E w \in Workers : CrawlExtract(w)
    \/ \E w \in Workers : CrawlExtractRaises(w)
    \/ \E w \in Workers : WorkerMarkCrawled(w)
    \/ \E w \in Workers : WorkerAddLink(w)
    \/ \E w \in Workers : WorkerMarkFailed(w)
    \/ \E w \in Workers : WorkerRetry(w)
    \/ StartReturns

Spec == Init /\ [][Next]_vars

\* The steps of worker task w.
WorkerStep(w) ==
    \/ WorkerLoop(w)
    \/ WorkerGet(w)
    \/ CrawlRobots(w)
    \/ CrawlFetch(w)
    \/ CrawlExtract(w)
    \/ CrawlExtractRaises(w)
    \/ WorkerMarkCrawled(w)
    \/ WorkerAddLink(w)
    \/ WorkerMarkFailed(w)
    \/ WorkerRetry(w)

\* The event loop runs every task that is ready, the wait in get ends with
\* the event or its timeout, and every request ends with a response or its
\* timeout: no task that can take a step waits for ever.
Fairness ==
    /\ WF_vars(Start)
    /\ WF_vars(StartReturns)
    /\ \A w \in Workers : WF_vars(WorkerStep(w))

\* The crawl of Spec under fair scheduling, stop never called.
SpecLive == Init /\ [][Next]_vars /\ Fairness

\* ------------------------------------------------------------- SpecLinks
\* The crawl of Spec on the site "portal", whose home page has two internal
\* links and more than ten external links, up to the moment the pages the
\* home page links to are requested: their hosts do not answer within the
\* run.

InitLinks ==
    /\ Constructed
    /\ NormalizerIdle
    /\ RunConstructed
    /\ ExtraConstructed
    /\ render_mode = "static"
    /\ max_depth \in 0..MaxDepthCfg
    /\ max_urls = MaxUrlsCfg
    /\ respect_robots_txt = FALSE
    /\ follow_external_links \in BOOLEAN
    /\ pc = [w \in Workers |-> "idle"]

\* start, lines 112-133, on the portal.
StartPortal ==
    /\ ~running
    /\ \A w \in Workers : pc[w] = "idle"
    /\ running' = TRUE
    /\ site' = "portal"
    /\ FrontierAdd(Root, 0, CRITICAL)
    /\ pc' = [w \in Workers |-> "loop"]
    /\ UNCHANGED <<crawled_urls, failed_urls, entry, pending, stats, delivered>>
    /\ UNCHANGED <<configVars, rateVars, robotsVars, auxVars>>

\* _crawl_page, lines 219-229, for the home page.
PortalRobots(w) ==
    /\ entry[w].depth = 0
    /\ CrawlRobots(w)

NextLinks ==
    \/ StartPortal
    \/ \E w \in Workers : WorkerLoop(w)
    \/ \E w \in Workers : WorkerGet(w)
    \/ \E w \in Workers : PortalRobots(w)
    \/ \E w \in Workers : CrawlFetch(w)
    \/ \E w \in Workers : CrawlExtract(w)
    \/ \E w \in Workers : CrawlExtractRaises(w)
    \/ \E w \in Workers : WorkerMarkCrawled(w)
    \/ \E w \in Workers : WorkerAddLink(w)
    \/ \E w \in Workers : WorkerMarkFailed(w)
    \/ \E w \in Workers : WorkerRetry(w)
    \/ StartReturns

SpecLinks == InitLinks /\ [][NextLinks]_vars

\* -------------------------------------------------------------- SpecRate
\* Tasks that run, as _crawl_page does (lines 231-252): acquire(domain), the
\* static fetch, record(domain, ...).  acquire holds _locks[domain] while it
\* sleeps; the fetch begins when acquire returns.

TickMs == min_delay
Horizon == StartTime + MaxTicks * TickMs

crawlVars == <<queue, seen_urls, crawled_urls, failed_urls, not_empty, clock,
               pc, entry, running, site, pending, stats, lastOp, accepted,
               delivered, configVars, robotsVars, auxVars>>

InitRate ==
    /\ Constructed
    /\ NormalizerIdle
    /\ RunConstructed
    /\ ExtraConstructed
    /\ render_mode = "static"
    /\ max_depth = MaxDepthCfg
    /\ max_urls = MaxUrlsCfg
    /\ respect_robots_txt = TRUE
    /\ follow_external_links = FALSE
    /\ pc = [w \in Workers |-> "idle"]

RECURSIVE Sum(_, _)
Sum(f, S) ==
    IF S = {} THEN 0
    ELSE LET x == CHOOSE y \in S : TRUE IN f[x] + Sum(f, S \ {x})

\* The fetches begun or being waited for in acquire.
Requested ==
    Sum(begun, Domains) + Cardinality({w \in Workers : rpc[w] = "sleeping"})

\* The static fetch of task w begins (crawler_engine line 241).
BeginFetch(w, d) ==
    /\ rpc' = [rpc EXCEPT ![w] = "fetching"]
    /\ begun' = [begun EXCEPT ![d] = @ + 1]
    /\ last_begin' = [last_begin EXCEPT ![d] = Begin(now, calculate_delay(d))]

\* acquire, lines 70-91, up to the sleep.
RateAcquire(w, d) ==
    /\ rpc[w] = "ready"
    /\ Requested < MaxRequests
    /\ LockFree(d)
    /\ rdom' = [rdom EXCEPT ![w] = d]
    /\ last_record' = NoRecord
    /\ LET elapsed == now - last_request_time[d]
           remaining == calculate_delay(d) - elapsed
       IN  IF remaining > 0
           THEN /\ \E actual_delay \in ActualDelays(remaining) :
                      wake_at' = [wake_at EXCEPT ![w] = now + actual_delay]
                /\ rl_lock' = [rl_lock EXCEPT ![d] = w]
                /\ rpc' = [rpc EXCEPT ![w] = "sleeping"]
                /\ UNCHANGED <<begun, last_begin>>
           ELSE /\ BeginFetch(w, d)
                /\ UNCHANGED <<wake_at, rl_lock>>
    /\ UNCHANGED <<now, last_request_time, current_delay, consecutive_errors,
                   request_count>>
    /\ UNCHANGED crawlVars

\* acquire, line 91: the sleep is over, the lock is released, acquire returns.
RateWake(w) ==
    /\ rpc[w] = "sleeping"
    /\ now >= wake_at[w]
    /\ rl_lock' = [rl_lock EXCEPT ![rdom[w]] = 0]
    /\ BeginFetch(w, rdom[w])
    /\ UNCHANGED <<now, last_request_time, current_delay, consecutive_errors,
                   request_count, rdom>>
    /\ wake_at' = [wake_at EXCEPT ![w] = 0]
    /\ last_record' = NoRecord
    /\ UNCHANGED crawlVars

\* The fetch returns and _crawl_page calls record (rate_limiter lines 93-105).
RecordCall(w) ==
    /\ rpc[w] = "fetching"
    /\ \E r \in FetchResults :
          LET d == rdom[w]
              errors == ErrorsAfter(consecutive_errors[d], r.success)
          IN  /\ last_request_time' = [last_request_time EXCEPT ![d] = now]
              /\ request_count' = [request_count EXCEPT ![d] = @ + 1]
              /\ consecutive_errors' = [consecutive_errors EXCEPT ![d] = errors]
              /\ current_delay' =
                    IF adaptive
                    THEN [current_delay EXCEPT
                            ![d] = adjust_delay(@, errors, r.status_code)]
                    ELSE current_delay
              /\ last_record' = Record(d, r.success, r.status_code)
    /\ rpc' = [rpc EXCEPT ![w] = "ready"]
    /\ rdom' = [rdom EXCEPT ![w] = NoDomain]
    /\ UNCHANGED <<now, rl_lock, wake_at, begun, last_begin>>

RateRecord(w) ==
    /\ RecordCall(w)
    /\ UNCHANGED crawlVars

\* Time passes.
Tick ==
    /\ now < Horizon
    /\ now' = now + TickMs
    /\ UNCHANGED <<last_request_time, current_delay, consecutive_errors,
                   request_count, rl_lock, rpc, rdom, wake_at, begun, last_begin>>
    /\ last_record' = NoRecord
    /\ UNCHANGED crawlVars

NextRate ==
    \/ \E w \in Workers, d \in Domains : RateAcquire(w, d)
    \/ \E w \in Workers : RateWake(w)
    \/ \E w \in Workers : RateRecord(w)
    \/ Tick

SpecRate == InitRate /\ [][NextRate]_vars

\* -------------------------------------------------------------- SpecPage
\* Tasks that run _crawl_page (lines 216-256) on the URLs of a host the
\* crawl has not visited before: can_fetch, get_crawl_delay and
\* set_crawl_delay when respect_robots_txt is on, then acquire, the static
\* fetch and record.  Each URL is handed to one task, once, as the frontier
\* does.  A step runs from one suspension of the task to the next: the GET of
\* robots.txt, a held lock, the sleep in acquire and the static fetch.

PageUrls == {Ext, Ext2, ExtPrivate}

\* The user agent _crawl_page names in can_fetch(url, "IAWIC")
crawler_agent == "IAWIC"

pageFrame == <<queue, seen_urls, crawled_urls, failed_urls, not_empty, clock,
               pc, entry, running, site, pending, stats, lastOp, accepted,
               configVars, auxVars>>

InitPage ==
    /\ Constructed
    /\ NormalizerIdle
    /\ RunConstructed
    /\ ExtraConstructed
    /\ render_mode = "static"
    /\ max_depth = MaxDepthCfg
    /\ max_urls = MaxUrlsCfg
    /\ respect_robots_txt \in BOOLEAN
    /\ follow_external_links = TRUE
    /\ pc = [w \in Workers |-> "idle"]

\* acquire, lines 71-91, entered with the lock free; `delays` is
\* current_delay as set_crawl_delay has just left it.
AcquireWith(w, d, delays) ==
    LET delay == IF adaptive THEN delays[d] ELSE base_delay
        remaining == delay - (now - last_request_time[d])
    IN  /\ current_delay' = delays
        /\ IF remaining > 0
           THEN /\ \E actual_delay \in ActualDelays(remaining) :
                      wake_at' = [wake_at EXCEPT ![w] = now + actual_delay]
                /\ rl_lock' = [rl_lock EXCEPT ![d] = w]
                /\ rpc' = [rpc EXCEPT ![w] = "sleeping"]
                /\ UNCHANGED <<begun, last_begin>>
           ELSE /\ rpc' = [rpc EXCEPT ![w] = "fetching"]
                /\ begun' = [begun EXCEPT ![d] = @ + 1]
                /\ last_begin' = [last_begin EXCEPT ![d] = Begin(now, delay)]
                /\ UNCHANGED <<wake_at, rl_lock>>

\* _crawl_page, line 232: await self.rate_limiter.acquire(domain)
EnterAcquire(w, d, delays) ==
    IF LockFree(d)
    THEN AcquireWith(w, d, delays)
    ELSE /\ rpc' = [rpc EXCEPT ![w] = "lock_wait"]
         /\ current_delay' = delays
         /\ UNCHANGED <<wake_at, rl_lock, begun, last_begin>>

\* _crawl_page, lines 221-232, from the return of can_fetch's is_allowed on
\* the cache `cache`: drop the URL, or take the crawl delay and acquire.
AfterCanFetch(w, url, cache) ==
    LET d == netloc(url)
    IN  IF ~is_allowed(cache[d], url)
        THEN /\ rpc' = [rpc EXCEPT ![w] = "ready"]
             /\ rurl' = [rurl EXCEPT ![w] = NoUrl]
             /\ rdom' = [rdom EXCEPT ![w] = NoDomain]
             /\ allowed' = [allowed EXCEPT ![w] = FALSE]
             /\ UNCHANGED <<current_delay, wake_at, rl_lock, begun, last_begin>>
        ELSE /\ rurl' = [rurl EXCEPT ![w] = url]
             /\ rdom' = [rdom EXCEPT ![w] = d]
             /\ allowed' = [allowed EXCEPT ![w] = TRUE]
             /\ LET crawl_delay == cache[d].crawl_delay
                IN  EnterAcquire(w, d,
                       IF crawl_delay # 0
                       THEN [current_delay EXCEPT
                               ![d] = set_crawl_delay(crawl_delay)]
                       ELSE current_delay)

\* _crawl_page is called with url: up to the first suspension.
PageStart(w, url) ==
    /\ rpc[w] = "ready"
    /\ delivered[url] = 0
    /\ delivered' = [delivered EXCEPT ![url] = 1]
    /\ last_record' = NoRecord
    /\ IF respect_robots_txt
       THEN IF ~robots_cache[netloc(url)].cached
            THEN \* can_fetch, line 220: fetch_and_parse issues the GET
                 /\ robots_gets' = [robots_gets EXCEPT ![netloc(url)] = @ + 1]
                 /\ rpc' = [rpc EXCEPT ![w] = "robots_get"]
                 /\ rurl' = [rurl EXCEPT ![w] = url]
                 /\ rdom' = [rdom EXCEPT ![w] = netloc(url)]
                 /\ UNCHANGED <<robots_cache, allowed, current_delay, wake_at,
                                rl_lock, begun, last_begin>>
            ELSE /\ AfterCanFetch(w, url, robots_cache)
                 /\ UNCHANGED <<robots_cache, robots_gets>>
       ELSE /\ rurl' = [rurl EXCEPT ![w] = url]
            /\ rdom' = [rdom EXCEPT ![w] = netloc(url)]
            /\ EnterAcquire(w, netloc(url), current_delay)
            /\ UNCHANGED <<robots_cache, robots_gets, allowed>>
    /\ UNCHANGED <<now, last_request_time, consecutive_errors, request_count>>
    /\ UNCHANGED pageFrame

\* fetch_and_parse, lines 80-136: the GET returns and the entry is cached;
\* can_fetch returns is_allowed(url).
PageRobotsDone(w) ==
    /\ rpc[w] = "robots_get"
    /\ \E response \in RobotsResponses :
          LET cache == [robots_cache EXCEPT ![rdom[w]] = Parsed(response)]
          IN  /\ robots_cache' = cache
              /\ AfterCanFetch(w, rurl[w], cache)
    /\ robots_gets' = [robots_gets EXCEPT ![rdom[w]] = @ - 1]
    /\ last_record' = NoRecord
    /\ UNCHANGED <<now, last_request_time, consecutive_errors, request_count>>
    /\ UNCHANGED <<delivered, pageFrame>>

\* acquire, line 70: the lock the task waited for is free.
PageLockAcquired(w) ==
    /\ rpc[w] = "lock_wait"
    /\ LockFree(rdom[w])
    /\ AcquireWith(w, rdom[w], current_delay)
    /\ last_record' = NoRecord
    /\ UNCHANGED <<now, last_request_time, consecutive_errors, request_count>>
    /\ UNCHANGED <<rdom, robots_cache, robots_gets, rurl, allowed>>
    /\ UNCHANGED <<delivered, pageFrame>>

\* _crawl_page, lines 241-256: the fetch returns, record is called.
PageRecord(w) ==
    /\ RecordCall(w)
    /\ rurl' = [rurl EXCEPT ![w] = NoUrl]
    /\ allowed' = [allowed EXCEPT ![w] = FALSE]
    /\ UNCHANGED <<robots_cache, robots_gets, delivered, pageFrame>>

NextPage ==
    \/ \E w \in Workers, url \in PageUrls : PageStart(w, url)
    \/ \E w \in Workers : PageRobotsDone(w)
    \/ \E w \in Workers : PageLockAcquired(w)
    \/ \E w \in Workers : RateWake(w)
    \/ \E w \in Workers : PageRecord(w)
    \/ Tick

SpecPage == InitPage /\ [][NextPage]_vars

\* --------------------------------------------------------------- SpecRun
\* A crawl of the site "home" as main() runs it: start(seed) with the seed
\* as the user spelled it, the workers, _crawl_page with the static fetch
\* result, the rendering decision and the renderer, _extract_page_data with
\* the sink hooked in, and stop() called by the caller while start is
\* running or after it has returned.  A task is cancelled where it is
\* suspended: in get, in can_fetch or acquire ("robots"), in the static
\* fetch, in render, or in _extract_page_data, whose sink may write.

MaxStops == 1

Seeds == {Root, SeedBare, SeedTracked}

\* Tasks at these points are running, not suspended: no other task runs.
NotSuspended == {"mark_crawled", "links", "mark_failed", "retry"}

\* page_data as the sink receives it: _extract_page_data, lines 327-345
page_data(url, html_) == [url |-> url, html |-> html_]

InitRun ==
    /\ Constructed
    /\ NormalizerIdle
    /\ RunConstructed
    /\ ExtraConstructed
    /\ max_depth = MaxDepthCfg
    /\ max_urls = MaxUrlsCfg
    /\ respect_robots_txt = TRUE
    /\ follow_external_links = FALSE
    /\ render_mode \in RenderModes
    /\ pc = [w \in Workers |-> "idle"]

runFrame == <<configVars, rateVars, robotsVars, normVars, extraVars,
              render_mode>>

\* start, lines 110-136, up to the gather.
RunStart ==
    /\ start_pc = "idle"
    /\ \E seed \in Seeds : FrontierAdd(seed, 0, CRITICAL)
    /\ start_pc' = "gather"
    /\ running' = TRUE
    /\ site' = "home"
    /\ pc' = [w \in Workers |-> "loop"]
    /\ UNCHANGED <<crawled_urls, failed_urls, entry, pending, stats, delivered>>
    /\ UNCHANGED <<stops, client_closes, renderer_closes, browser,
                   fetch_result, html, sunk, runFrame>>

\* _crawl_page returns None: _worker, lines 191-192.
PageNone(w) ==
    /\ ResultNone(w)
    /\ fetch_result' = [fetch_result EXCEPT ![w] = NoResult]
    /\ html' = [html EXCEPT ![w] = ""]

\* An exception leaves _crawl_page's try block, lines 279-281: caught, the
\* page is None; not caught, the task ends with it.
PageRaises(w, exc) ==
    IF is_Exception(exc)
    THEN PageNone(w)
    ELSE /\ pc' = [pc EXCEPT ![w] = "crashed"]
         /\ UNCHANGED <<stats, entry, fetch_result, html>>

\* What can_fetch comes to: the rules allow the URL, they disallow it, or
\* robots.txt could not be fetched and the empty record allows it.
RobotsOutcomes == {"allowed", "disallowed", "error"}

\* _crawl_page, lines 219-232: the robots check and acquire.
RunRobots(w) ==
    /\ pc[w] = "robots"
    /\ \E outcome \in RobotsOutcomes :
          IF respect_robots_txt /\ outcome = "disallowed"
          THEN PageNone(w)
          ELSE /\ pc' = [pc EXCEPT ![w] = "fetch"]
               /\ UNCHANGED <<stats, entry, fetch_result, html>>
    /\ lastOp' = NoOp
    /\ UNCHANGED <<frontierVars, accepted, delivered, running, site, pending>>
    /\ UNCHANGED <<start_pc, stops, client_closes, renderer_closes, browser,
                   sunk, runFrame>>

\* _crawl_page, lines 241-271: the static fetch returns.
RunFetch(w) ==
    /\ pc[w] = "fetch"
    /\ \E result \in StaticFetches :
          IF ~result.success
          THEN PageNone(w)
          ELSE /\ fetch_result' = [fetch_result EXCEPT ![w] = result]
               /\ html' = [html EXCEPT ![w] = result.html]
               /\ pc' = [pc EXCEPT ![w] =
                           IF /\ needs_js_render(render_mode, result.html)
                              /\ has_renderer(render_mode)
                           THEN "render" ELSE "extract"]
               /\ UNCHANGED <<stats, entry>>
    /\ lastOp' = NoOp
    /\ UNCHANGED <<frontierVars, accepted, delivered, running, site, pending>>
    /\ UNCHANGED <<start_pc, stops, client_closes, renderer_closes, browser,
                   sunk, runFrame>>

\* render: the page is rendered; or the navigation fails and render returns
\* a result with success = False (renderer lines 233-245); or, the browser
\* not yet launched, initialize raises (lines 110-111).
RenderOutcomes == {"rendered", "failed", "launch_failed"}

\* _crawl_page, lines 271-281: render returns or raises.
RunRender(w) ==
    /\ pc[w] = "render"
    /\ \E outcome \in RenderOutcomes :
          IF outcome = "launch_failed"
          THEN /\ browser = "none"
               /\ PageRaises(w, "Error")
               /\ UNCHANGED browser
          ELSE /\ browser' = "launched"
               /\ html' = [html EXCEPT ![w] =
                             IF outcome = "rendered" THEN "rendered" ELSE @]
               /\ pc' = [pc EXCEPT ![w] = "extract"]
               /\ UNCHANGED <<stats, entry, fetch_result>>
    /\ lastOp' = NoOp
    /\ UNCHANGED <<frontierVars, accepted, delivered, running, site, pending>>
    /\ UNCHANGED <<start_pc, stops, client_closes, renderer_closes, sunk,
                   runFrame>>

\* links of the page data: _extract_page_data, lines 302 and 334-337
links_of(s, url, html_) ==
    IF has_anchor(html_) THEN LinksToOffer(s, url) ELSE <<>>

\* _crawl_page, line 284, with main's extract_and_store in place of
\* _extract_page_data: the page is built and handed to every backend (a
\* save_page that raises is caught there, main.py lines 145-152), or an
\* extractor raises and _worker catches it (lines 194-196).
RunExtract(w) ==
    /\ pc[w] = "extract"
    /\ \/ /\ sunk' = sunk \cup {page_data(entry[w].url, html[w])}
          /\ pending' = [pending EXCEPT
                           ![w] = links_of(site, entry[w].url, html[w])]
          /\ pc' = [pc EXCEPT ![w] = "mark_crawled"]
          /\ UNCHANGED stats
       \/ /\ IF is_Exception("AttributeError")
             THEN /\ stats' = BumpStat("pages_failed")
                  /\ pc' = [pc EXCEPT ![w] = "mark_failed"]
             ELSE /\ pc' = [pc EXCEPT ![w] = "crashed"]
                  /\ UNCHANGED stats
          /\ UNCHANGED <<sunk, pending>>
    /\ fetch_result' = [fetch_result EXCEPT ![w] = NoResult]
    /\ html' = [html EXCEPT ![w] = ""]
    /\ lastOp' = NoOp
    /\ UNCHANGED <<frontierVars, entry, accepted, delivered, running, site>>
    /\ UNCHANGED <<start_pc, stops, client_closes, renderer_closes, browser,
                   runFrame>>

\* _worker, lines 180-190: mark_crawled, then the links of the page.
RunMarkCrawled(w) ==
    /\ pc[w] = "mark_crawled"
    /\ FrontierMarkCrawled(entry[w].url)
    /\ stats' = BumpStat("pages_crawled")
    /\ IF pending[w] # <<>>
       THEN /\ pc' = [pc EXCEPT ![w] = "links"]
            /\ UNCHANGED entry
       ELSE /\ pc' = [pc EXCEPT ![w] = "loop"]
            /\ entry' = [entry EXCEPT ![w] = NoEntry]
    /\ UNCHANGED <<queue, seen_urls, failed_urls, not_empty, clock>>
    /\ UNCHANGED <<running, site, pending, accepted, delivered>>
    /\ UNCHANGED <<start_pc, stops, client_closes, renderer_closes, browser,
                   fetch_result, html, sunk, runFrame>>

\* stop, lines 143-156: _running is cleared, every worker still running is
\* cancelled where it is suspended, the client and the renderer are closed.
StopBody ==
    /\ running' = FALSE
    /\ pc' = [w \in Workers |->
                IF pc[w] \in {"idle", "done", "crashed", "cancelled"}
                THEN pc[w] ELSE "cancelled"]
    /\ client_closes' = client_closes + 1
    /\ renderer_closes' =
          IF has_renderer(render_mode) THEN renderer_closes + 1
          ELSE renderer_closes
    /\ lastOp' = NoOp
    /\ UNCHANGED <<frontierVars, entry, site, pending, stats, accepted,
                   delivered>>
    /\ UNCHANGED <<browser, fetch_result, html, sunk, runFrame>>

\* The caller of the engine calls stop(), main.py line 178.
CallerStop ==
    /\ start_pc \in {"gather", "returned"}
    /\ stops < MaxStops
    /\ \A w \in Workers : pc[w] \notin NotSuspended
    /\ stops' = stops + 1
    /\ StopBody
    /\ UNCHANGED start_pc

\* start, lines 136-139: the gather is over, start calls stop() and returns.
RunStartReturns ==
    /\ start_pc = "gather"
    /\ \A w \in Workers : pc[w] \in {"done", "crashed", "cancelled"}
    /\ start_pc' = "returned"
    /\ StopBody
    /\ UNCHANGED stops

NextRun ==
    \/ RunStart
    \/ \E w \in Workers : WorkerLoop(w)
    \/ \E w \in Workers : WorkerGet(w)
    \/ \E w \in Workers : RunRobots(w)
    \/ \E w \in Workers : RunFetch(w)
    \/ \E w \in Workers : RunRender(w)
    \/ \E w \in Workers : RunExtract(w)
    \/ \E w \in Workers : RunMarkCrawled(w)
    \/ \E w \in Workers : WorkerAddLink(w)
    \/ \E w \in Workers : WorkerMarkFailed(w)
    \/ \E w \in Workers : WorkerRetry(w)
    \/ CallerStop
    \/ RunStartReturns

SpecRun == InitRun /\ [][NextRun]_vars

\* ------------------------------------------------------------- SpecRobots
\* The parser called on its own, by one task, while hours pass: each call
\* of fetch_and_parse, can_fetch and get_crawl_delay runs to its return, and
\* a GET it issues is answered with one of the RobotsResponses.

MaxTtlSteps == 3

\* Time passes in steps of half the TTL.
TtlStep == cache_ttl \div 2

RobotsUrls == {Root, Private, Ext, ExtPrivate}

robotsFrame == <<queue, seen_urls, crawled_urls, failed_urls, not_empty,
                 clock, pc, entry, running, site, pending, stats, lastOp,
                 accepted, delivered, configVars, normVars, runVars,
                 dedupVars, sinkVars,
                 last_request_time, current_delay, consecutive_errors,
                 request_count, rl_lock, rpc, rdom, wake_at, begun,
                 last_begin, last_record, robots_gets, rurl, allowed>>

InitRobots ==
    /\ Constructed
    /\ NormalizerIdle
    /\ RunConstructed
    /\ ExtraConstructed
    /\ render_mode = "static"
    /\ max_depth = MaxDepthCfg
    /\ max_urls = MaxUrlsCfg
    /\ respect_robots_txt = TRUE
    /\ follow_external_links = FALSE
    /\ pc = [w \in Workers |-> "idle"]

\* fetch_and_parse, lines 66-136: the GET, and the record cached for it
RobotsGet(d) ==
    \E response \in RobotsResponses :
       /\ robots_cache' = [robots_cache EXCEPT ![d] = Parsed(response)]
       /\ fetch_time' = [fetch_time EXCEPT ![d] = now]

\* fetch_and_parse(base_url), lines 50-136
FetchAndParse(url) ==
    /\ LET d == netloc(url)
       IN  IF cache_fresh(robots_cache[d], fetch_time[d], now)
           THEN /\ rcall' = RCall("fetch_and_parse", url, "", FALSE, TRUE)
                /\ UNCHANGED <<robots_cache, fetch_time>>
           ELSE /\ rcall' = RCall("fetch_and_parse", url, "", TRUE, TRUE)
                /\ RobotsGet(d)
    /\ UNCHANGED <<now, robotsFrame>>

\* The async wrappers, lines 217-220 and 231-234: fetch_and_parse is called
\* when the host has no record.
AsyncWrapper(url) ==
    LET d == netloc(url)
    IN  IF cache_present(robots_cache[d], fetch_time[d], now)
        THEN UNCHANGED <<robots_cache, fetch_time>>
        ELSE RobotsGet(d)

\* The user agents a caller may name; _crawl_page names "IAWIC".
UserAgents == {"*", "IAWIC"}

\* can_fetch(url, user_agent), lines 210-222
CanFetch(url, user_agent) ==
    /\ AsyncWrapper(url)
    /\ rcall' = RCall("can_fetch", url, user_agent,
                      ~cache_present(robots_cache[netloc(url)],
                                     fetch_time[netloc(url)], now),
                      is_allowed(robots_cache'[netloc(url)], url))
    /\ UNCHANGED <<now, robotsFrame>>

\* get_crawl_delay(url, user_agent), lines 224-239
GetCrawlDelay(url, user_agent) ==
    /\ AsyncWrapper(url)
    /\ rcall' = RCall("get_crawl_delay", url, user_agent,
                      ~cache_present(robots_cache[netloc(url)],
                                     fetch_time[netloc(url)], now),
                      TRUE)
    /\ UNCHANGED <<now, robotsFrame>>

\* Half a TTL passes.
RobotsTick ==
    /\ now < StartTime + MaxTtlSteps * TtlStep
    /\ now' = now + TtlStep
    /\ rcall' = NoCall
    /\ UNCHANGED <<robots_cache, fetch_time, robotsFrame>>

NextRobots ==
    \/ \E url \in RobotsUrls : FetchAndParse(url)
    \/ \E url \in RobotsUrls, user_agent \in UserAgents :
          CanFetch(url, user_agent)
    \/ \E url \in RobotsUrls, user_agent \in UserAgents :
          GetCrawlDelay(url, user_agent)
    \/ RobotsTick

SpecRobots == InitRobots /\ [][NextRobots]_vars

\* -------------------------------------------------------------- SpecDedup
\* The deduplicator called with page texts, one check after another.

MaxChecks == 3

dedupFrame == <<queue, seen_urls, crawled_urls, failed_urls, not_empty,
                clock, pc, entry, running, site, pending, stats, lastOp,
                accepted, delivered, configVars, rateVars, robotsVars,
                normVars, runVars, fetch_time, rcall, sinkVars>>

InitDedup ==
    /\ Constructed
    /\ NormalizerIdle
    /\ RunConstructed
    /\ ExtraConstructed
    /\ render_mode = "static"
    /\ max_depth = MaxDepthCfg
    /\ max_urls = MaxUrlsCfg
    /\ respect_robots_txt = TRUE
    /\ follow_external_links = FALSE
    /\ pc = [w \in Workers |-> "idle"]

\* ContentDeduplicator.check(url, text_content), lines 36-64
Check(url, text) ==
    /\ Cardinality({h \in ContentHashes : exact_hashes[h] # NoUrl})
          + duplicate_count < MaxChecks
    /\ IF is_short(text)
       THEN /\ dresult' = DeduplicationResult(url, text, FALSE,
                                              "skipped_short_content")
            /\ UNCHANGED <<exact_hashes, simhashes, duplicate_count>>
       ELSE IF exact_duplicate(text)
       THEN /\ dresult' = DeduplicationResult(url, text, TRUE, "exact_hash")
            /\ duplicate_count' = duplicate_count + 1
            /\ UNCHANGED <<exact_hashes, simhashes>>
       ELSE IF near_duplicate(text)
       THEN /\ dresult' = DeduplicationResult(url, text, TRUE, "simhash")
            /\ duplicate_count' = duplicate_count + 1
            /\ UNCHANGED <<exact_hashes, simhashes>>
       ELSE \* _store, lines 121-124
            /\ dresult' = DeduplicationResult(url, text, FALSE, "unique")
            /\ exact_hashes' = [exact_hashes EXCEPT ![content_hash(text)] = url]
            /\ simhashes' = [simhashes EXCEPT ![url] = simhash_compute(text)]
            /\ UNCHANGED duplicate_count
    /\ UNCHANGED <<now, dedupFrame>>

NextDedup ==
    \E url \in DedupUrls, text \in Texts : Check(url, text)

SpecDedup == InitDedup /\ [][NextDedup]_vars

\* --------------------------------------------------------------- SpecSink
\* The workers hand pages to the JSON sink; main closes it when they are
\* gone.

sinkFrame == <<queue, seen_urls, crawled_urls, failed_urls, not_empty,
               clock, pc, entry, running, site, pending, stats, lastOp,
               accepted, delivered, configVars, rateVars, robotsVars,
               normVars, runVars, fetch_time, rcall, dedupVars>>

InitSink ==
    /\ Constructed
    /\ NormalizerIdle
    /\ RunConstructed
    /\ ExtraConstructed
    /\ render_mode = "static"
    /\ respect_robots_txt = TRUE
    /\ follow_external_links = FALSE
    /\ max_depth = MaxDepthCfg
    /\ max_urls = MaxUrlsCfg
    /\ pc = [w \in Workers |-> "done"]

SinkSavePage(w) ==
    /\ SavePage(w)
    /\ UNCHANGED sinkFrame

SinkFlushDumps(t) ==
    /\ FlushDumps(t)
    /\ UNCHANGED sinkFrame

SinkFlushWritten(t) ==
    /\ FlushWritten(t)
    /\ UNCHANGED sinkFrame

SinkClose ==
    /\ Close
    /\ UNCHANGED sinkFrame

NextSink ==
    \/ \E w \in Workers : SinkSavePage(w)
    \/ \E t \in SinkTasks : SinkFlushDumps(t)
    \/ \E t \in SinkTasks : SinkFlushWritten(t)
    \/ SinkClose

SpecSink == InitSink /\ [][NextSink]_vars

\* --------------------------------------------------------- SpecNormalize
\* normalize applied, again and again, to a URL of the host a.test: a path,
\* then the parameter q with a value of up to MaxValueLen characters, alone
\* or followed by a second parameter with no value.

MaxValueLen == 7
MaxApply == 2

RECURSIVE Strings(_, _)
Strings(chars, n) ==
    IF n = 0 THEN {<<>>}
    ELSE LET shorter == Strings(chars, n - 1)
         IN  shorter \cup {Append(x, c) : x \in shorter, c \in chars}

NormPaths ==
    {<<>>, <<"/">>, <<"/", "q", "/">>, <<"/", "/", "%", "2", "5", "2", "5">>}

NormQueries ==
    {<<"?", "q", "=">> \o value \o tail :
        value \in Strings({"%", "2", "5"}, MaxValueLen),
        tail \in {<<>>, <<"&", "2">>}}

NormInputs == {path \o query : path \in NormPaths, query \in NormQueries}

normFrame == <<queue, seen_urls, crawled_urls, failed_urls, not_empty, clock,
               pc, entry, running, site, pending, stats, lastOp, accepted,
               delivered, configVars, rateVars, robotsVars, runVars,
               extraVars>>

InitNormalize ==
    /\ Constructed
    /\ RunConstructed
    /\ ExtraConstructed
    /\ render_mode = "static"
    /\ max_depth = MaxDepthCfg
    /\ max_urls = MaxUrlsCfg
    /\ respect_robots_txt = TRUE
    /\ follow_external_links = FALSE
    /\ pc = [w \in Workers |-> "idle"]
    /\ nurl \in NormInputs
    /\ napplied = 0

\* url = normalizer.normalize(url)
Normalize ==
    /\ napplied < MaxApply
    /\ nurl' = normalize(nurl)
    /\ napplied' = napplied + 1
    /\ UNCHANGED normFrame

NextNormalize == Normalize

SpecNormalize == InitNormalize /\ [][NextNormalize]_vars

\* ================================================================ claims

QueuedUrls == {queue[i].url : i \in 1..Len(queue)}
DeliveredUrls == {u \in Urls : delivered[u] > 0}
Finished == \A w \in Workers : pc[w] = "done"

\* ---- C1 (SpecRate)
\* C1: any two static fetches of a domain begin at least the delay acquire
\* computed for the later one apart, less the jitter allowance - also when
\* the later acquire runs while the earlier fetch is still in flight.
C1_FetchesSpaced ==
    [][\A d \in Domains :
          (begun'[d] = begun[d] + 1 /\ begun[d] > 0) =>
              (last_begin'[d].t - last_begin[d].t) * 100
                  >= last_begin'[d].delay * (100 - jitter)]_vars

\* ---- C2 (Spec)
Handling == {"robots", "fetch", "extract", "mark_crawled", "links",
             "mark_failed", "retry"}

ExactlyOne(a, b, c) ==
    \/ a /\ ~b /\ ~c
    \/ ~a /\ b /\ ~c
    \/ ~a /\ ~b /\ c

\* C2: when a worker is done with a URL get delivered to it, exactly one of
\* these is recorded for the URL: crawled, terminal-failed (failure count >=
\* max_retries), re-enqueued.
C2_ExactlyOneOutcome ==
    [][\A w \in Workers :
          (pc[w] \in Handling /\ pc'[w] = "loop") =>
              LET url == entry[w].url IN
              ExactlyOne(url_hash(url) \in crawled_urls',
                         failed_urls'[url_hash(url)] >= max_retries,
                         \E i \in 1..Len(queue') : queue'[i].url = url)]_vars

\* ---- C3 (Spec)
\* C3: when handling a URL raised and mark_failed returned true, the worker's
\* retry puts the URL back into the queue at LOW priority with its depth.
C3_RetryReenqueued ==
    [][\A w \in Workers :
          (pc[w] = "retry" /\ pc'[w] = "loop") =>
              \E i \in 1..Len(queue') :
                  /\ queue'[i].url = entry[w].url
                  /\ queue'[i].depth = entry[w].depth
                  /\ queue'[i].priority = LOW]_vars

\* ---- C4 (Spec)
\* C4: when the static fetch of a popped URL is not a success, the worker is
\* done with the URL only after mark_failed has raised its failure count by
\* one.
C4_NonSuccessMarkedFailed ==
    [][\A w \in Workers :
          (pc[w] = "fetch" /\ pc'[w] = "loop") =>
              failed_urls'[url_hash(entry[w].url)]
                  = failed_urls[url_hash(entry[w].url)] + 1]_vars

\* ---- C5 (SpecFrontier)
\* C5: add(url, depth, priority) returns true iff the URL's hash is not in
\* seen, depth <= max_depth and the queue holds fewer than max_urls entries;
\* then the hash is in seen and the queue has exactly one new entry, the one
\* for the URL with that depth and priority.
C5_AddAdmits ==
    [][lastOp'.op = "add" =>
          LET url == lastOp'.url
              depth == lastOp'.depth
              new == {i \in 1..Len(queue') :
                         /\ queue'[i].url = url
                         /\ queue'[i].depth = depth
                         /\ queue'[i].priority = lastOp'.priority}
          IN  /\ lastOp'.ret <=> /\ url_hash(url) \notin seen_urls
                                 /\ depth <= max_depth
                                 /\ Len(queue) < max_urls
              /\ lastOp'.ret =>
                    /\ url_hash(url) \in seen_urls'
                    /\ Len(queue') = Len(queue) + 1
                    /\ Cardinality(new) = 1
                    /\ \A e \in {queue[i] : i \in 1..Len(queue)} :
                          \E j \in 1..Len(queue') : queue'[j] = e]_vars

C5_Witness ==
    /\ lastOp.op = "add"
    /\ lastOp.ret
    /\ Len(queue) = 2
    /\ lastOp.url \in QueuedUrls

\* ---- C6 (Spec)
\* C6: the frontier queue never holds more than max_urls entries.
C6_QueueBounded == Len(queue) <= max_urls

\* An add of an unseen URL within the depth limit is refused by a full queue.
C6_Witness ==
    /\ running
    /\ Len(queue) = max_urls
    /\ lastOp.op = "add"
    /\ ~lastOp.ret
    /\ url_hash(lastOp.url) \notin seen_urls
    /\ lastOp.depth <= max_depth

\* ---- C7 (SpecFrontier)
\* C7: the hash of every URL in the queue is in the seen set.
C7_QueuedAreSeen ==
    \A i \in 1..Len(queue) : url_hash(queue[i].url) \in seen_urls

C7_Witness ==
    /\ P1Upper \in QueuedUrls
    /\ url_hash(P1) \in seen_urls
    /\ Len(queue) = 2

\* ---- C8 (Spec)
\* C8: no entry with depth > max_depth is in the queue or returned by get;
\* the seed has depth 0 and a link found on it depth 1.  On the chain
\* / -> /p1 -> /p2 with max_depth = 1 every add of /p2 returns false, only /
\* and /p1 are ever crawled, and both are once the crawl ends without a
\* failure.
C8_DepthBounded ==
    /\ \A i \in 1..Len(queue) : queue[i].depth <= max_depth
    /\ \A w \in Workers : entry[w] # NoEntry => entry[w].depth <= max_depth
    /\ (lastOp.op = "get" /\ lastOp.ret) => lastOp.depth <= max_depth
    /\ \A e \in {queue[i] : i \in 1..Len(queue)} \cup {entry[w] : w \in Workers} :
          /\ e.url = Root => e.depth = 0
          /\ (site = "chain" /\ e.url = P1) => e.depth = 1
    /\ (site = "chain" /\ max_depth = 1) =>
          /\ crawled_urls \subseteq {url_hash(Root), url_hash(P1)}
          /\ (lastOp.op = "add" /\ lastOp.url = P2) => ~lastOp.ret
          /\ url_hash(P2) \notin seen_urls
          /\ (Finished /\ stats.pages_failed = 0) =>
                crawled_urls = {url_hash(Root), url_hash(P1)}

\* The add of /p2, found on /p1 at depth 1, has just returned false.
C8_Witness ==
    /\ site = "chain"
    /\ max_depth = 1
    /\ lastOp = Op("add", P2, 2, NORMAL, FALSE)
    /\ crawled_urls = {url_hash(Root), url_hash(P1)}

\* ---- C9 (SpecFrontier)
\* C9: an admitted entry is either still queued or has been returned by
\* exactly one get; no entry is returned twice, none leaves the queue
\* without being returned, and no two consumers hold the same entry.
C9_DeliveredOnce ==
    /\ \A u \in Urls : delivered[u] <= 1
    /\ QueuedUrls \cap DeliveredUrls = {}
    /\ QueuedUrls \cup DeliveredUrls = accepted
    /\ \A i, j \in 1..Len(queue) : queue[i].url = queue[j].url => i = j
    /\ \A v, w \in Workers :
          (v # w /\ entry[v] # NoEntry) => entry[v].url # entry[w].url

\* Two consumers were past the wait for one entry: one holds it, the other's
\* get has just returned None from the locked part.
C9_Witness ==
    /\ lastOp = Op("get", "", -1, -1, FALSE)
    /\ \E w \in Workers : pc[w] = "holding" /\ delivered[entry[w].url] = 1
    /\ Len(queue) = 0

\* ---- C10 (SpecFrontier)
\* C10: the entry get returns is least among the queued entries in the
\* lexicographic order on (priority, depth, discovery time).
C10_GetReturnsLeast ==
    [][\A w \in Workers :
          (pc[w] = "get_locked" /\ entry'[w] # NoEntry) =>
              \A i \in 1..Len(queue) : ~LessByTuple(queue[i], entry'[w])]_vars

\* ---- C11 (Spec)
\* C11: while the crawl has not been stopped, a worker leaves its loop only
\* when the queue is empty and no other worker is handling a URL.
C11_ExitOnlyWhenIdle ==
    [][\A w \in Workers :
          (running /\ pc[w] # "done" /\ pc'[w] = "done") =>
              /\ Len(queue) = 0
              /\ \A v \in Workers \ {w} : pc[v] \notin Handling]_vars

\* ---- C18 (SpecFrontier)
\* C18: mark_failed(url) raises the URL's failure count by one and returns
\* true exactly when the new count is below max_retries; no entry is placed
\* in the queue for a URL whose count has reached max_retries.
C18_MarkFailedCounts ==
    [][/\ lastOp'.op = "mark_failed" =>
             LET uhash == url_hash(lastOp'.url)
             IN  /\ failed_urls'[uhash] = failed_urls[uhash] + 1
                 /\ lastOp'.ret <=> failed_urls'[uhash] < max_retries
       /\ \A i \in 1..Len(queue') :
             (\A j \in 1..Len(queue) : queue[j] # queue'[i]) =>
                 failed_urls[url_hash(queue'[i].url)] < max_retries]_vars

\* An add of a URL whose count has reached max_retries has just been refused.
C18_Witness ==
    /\ lastOp.op = "add"
    /\ ~lastOp.ret
    /\ failed_urls[url_hash(lastOp.url)] = max_retries
    /\ lastOp.depth <= max_depth
    /\ Len(queue) < max_urls

\* ---- C19 (Spec)
\* C19: the hashes in the queue, in the crawled set or terminal-failed are
\* together the hashes add has accepted.  Stated at the points of a crawl
\* where no worker holds a URL, the weakest reading of "every point".
C19_AcceptedAccounted ==
    (\A w \in Workers : entry[w] = NoEntry) =>
        {url_hash(u) : u \in QueuedUrls} \cup crawled_urls
            \cup {h \in Hashes : failed_urls[h] >= max_retries}
        = {url_hash(u) : u \in accepted}

\* ---- C20 (Spec)
\* C20: no two workers handle URLs of the same hash at the same time, no
\* hash is delivered by get more than once, and a URL that is in the crawled
\* set is neither queued nor delivered again.
C20_NoDuplicateHandling ==
    /\ \A v, w \in Workers :
          (v # w /\ entry[v] # NoEntry /\ entry[w] # NoEntry) =>
              url_hash(entry[v].url) # url_hash(entry[w].url)
    /\ \A h \in Hashes :
          Sum(delivered, {u \in Urls : url_hash(u) = h}) <= 1
    /\ \A i \in 1..Len(queue) : url_hash(queue[i].url) \notin crawled_urls
    /\ (lastOp.op = "get" /\ lastOp.ret) =>
          url_hash(lastOp.url) \notin crawled_urls

\* A page links back to a crawled URL: the add has just been refused while
\* another worker is handling a URL of its own.
C20_Witness ==
    /\ lastOp.op = "add"
    /\ ~lastOp.ret
    /\ url_hash(lastOp.url) \in crawled_urls
    /\ lastOp.depth <= max_depth
    /\ Len(queue) < max_urls
    /\ \E v, w \in Workers :
          v # w /\ pc[v] \in Handling /\ pc[w] \in Handling

\* ---- C14 (SpecRate)
\* C14: a record with status 429 leaves the domain's current_delay at exactly
\* min(prev * 3, max_delay).  In a limiter with max_delay 2.0 a delay of 0.5
\* becomes 1.5 on one 429 and 2.0 on the next, whatever the error count.
C14_Triples429 ==
    [][/\ last_record'.status_code = 429 =>
             current_delay'[last_record'.domain]
                 = Min(current_delay[last_record'.domain] * 3, max_delay)
       /\ \A errors \in 0..MaxRequests :
             /\ adjust_delay_limits(500, errors, 429, 500, 2000) = 1500
             /\ adjust_delay_limits(1500, errors, 429, 500, 2000) = 2000]_vars

\* A success and then a 429: 1.0 -> 0.95 -> 2.85, under the cap.
C14_Witness ==
    /\ last_record.status_code = 429
    /\ request_count[last_record.domain] = 2
    /\ current_delay[last_record.domain] = 2850

\* ---- C16 (SpecRate)
\* C16: at most one task per domain is inside acquire (between reading
\* last_request_time and the end of its sleep), and it is the one holding
\* the domain's lock; an acquire on a domain whose own lock is free can
\* always go on, whatever the other domains' locks.
C16_AcquireSerialized ==
    /\ \A d \in Domains :
          /\ Cardinality({w \in Workers : rpc[w] = "sleeping" /\ rdom[w] = d}) <= 1
          /\ \A w \in Workers :
                (rpc[w] = "sleeping" /\ rdom[w] = d) <=> rl_lock[d] = w
    /\ \A w \in Workers, d \in Domains :
          (rpc[w] = "ready" /\ Requested < MaxRequests /\ rl_lock[d] = 0) =>
              ENABLED RateAcquire(w, d)

\* One task sleeps in acquire("a.test") holding its lock while another has
\* begun a fetch of b.test since a.test's last record.
C16_Witness ==
    \E v, w \in Workers :
        /\ rpc[v] = "sleeping" /\ rdom[v] = "a.test" /\ now < wake_at[v]
        /\ rpc[w] = "fetching" /\ rdom[w] = "b.test"
        /\ last_begin["b.test"].t > last_request_time["a.test"]

\* ---- C17 (SpecRate)
\* C17: a record with a status other than 429 applies one adjustment to
\* current_delay, the first that matches: status >= 500 doubles it up to
\* max_delay; consecutive_errors >= 3 doubles it up to max_delay; a success
\* with status < 400 and no consecutive errors multiplies it by 0.95 down to
\* min_delay; otherwise it is unchanged.  Other domains are not touched.
C17_OneAdjustment ==
    [][(last_record' # NoRecord /\ last_record'.status_code # 429) =>
          LET d == last_record'.domain
              status == last_record'.status_code
              prev == current_delay[d]
              errors == consecutive_errors'[d]
          IN  /\ current_delay'[d] =
                    IF status >= 500 THEN Min(prev * 2, max_delay)
                    ELSE IF errors >= 3 THEN Min(prev * 2, max_delay)
                    ELSE IF last_record'.success /\ status < 400 /\ errors = 0
                         THEN Max((prev * 95) \div 100, min_delay)
                    ELSE prev
              /\ \A other \in Domains \ {d} :
                    current_delay'[other] = current_delay[other]]_vars

\* The third 404 in a row: the delay, untouched by the first two, doubles.
C17_Witness ==
    /\ last_record.status_code = 404
    /\ consecutive_errors[last_record.domain] = 3
    /\ current_delay[last_record.domain] = 2 * default_delay

\* ---- C12 (SpecPage)
\* C12: at most one GET of a host's robots.txt is in flight at any time.
C12_RobotsSingleFlight ==
    \A d \in Domains : robots_gets[d] <= 1

\* ---- C13 (SpecPage)
\* The loaded rules of the URL's host disallow its path to the crawler.
RulesDisallow(data, url) ==
    /\ data.cached
    /\ data.raw_content # ""
    /\ ~parser_can_fetch(data.raw_content, crawler_agent, url)

\* C13: with respect_robots_txt on, a task enters acquire only after
\* can_fetch has returned true for its URL, the static fetch is issued only
\* when acquire returns, and no fetch is issued for a URL that the loaded
\* robots rules of its host disallow.
C13_FetchAfterRobotsAndAcquire ==
    [][\A w \in Workers :
          /\ (respect_robots_txt /\ rpc'[w] \in {"lock_wait", "sleeping"}) =>
                allowed'[w]
          /\ (respect_robots_txt /\ rpc[w] # "fetching" /\ rpc'[w] = "fetching") =>
                /\ allowed'[w]
                /\ ~RulesDisallow(robots_cache'[netloc(rurl'[w])], rurl'[w])]_vars

\* ---- C15 (SpecPage)
\* C15: every domain's current_delay is within [min_delay, max_delay], and
\* is 1/requests_per_second until the domain's first record or
\* set_crawl_delay.
C15_DelayWithinLimits ==
    \A d \in Domains :
        /\ min_delay <= current_delay[d]
        /\ current_delay[d] <= max_delay
        /\ (request_count[d] = 0 /\ ~robots_cache[d].cached) =>
              current_delay[d] = base_delay

\* ---- C21 (Spec)
\* C21: no step of a crawl (add, get, mark_crawled, mark_failed, the retry
\* add) removes an element from the seen set or from the crawled set.
C21_SetsOnlyGrow ==
    [][/\ seen_urls \subseteq seen_urls'
       /\ crawled_urls \subseteq crawled_urls']_vars

\* A second URL has been admitted and crawled after the first, and a retry
\* add has just been refused.
C21_Witness ==
    /\ Cardinality(seen_urls) >= 2
    /\ Cardinality(crawled_urls) >= 2
    /\ lastOp.op = "add"
    /\ ~lastOp.ret
    /\ lastOp.priority = LOW
    /\ failed_urls[url_hash(lastOp.url)] > 0

\* ---- C27 (Spec)
\* C27: a crawl configured with max_pages = M (the frontier's max_urls) marks
\* at most M URLs crawled.
C27_CrawledAtMostMaxPages ==
    /\ Cardinality(crawled_urls) <= max_urls
    /\ stats.pages_crawled <= max_urls

\* ---- C28 (SpecPage)
\* The record cached for a robots.txt fetch that returned 404, 410 or
\* another non-200 status, or that raised.
EmptyRecord(data) == data.cached /\ data.raw_content = ""

\* C28: when the GET of a host's robots.txt returns anything but a 200, an
\* empty record is cached for the host and the task goes on to fetch its
\* URL; while the empty record is cached (the run is far shorter than the
\* TTL of 3600 s), every URL of the host handed to a task is allowed and no
\* GET of the host's robots.txt is issued.
C28_FailOpenCached ==
    [][/\ \A w \in Workers :
             (/\ rpc[w] = "robots_get"
              /\ rpc'[w] # "robots_get"
              /\ robots_cache'[rdom[w]].raw_content = "") =>
                 /\ EmptyRecord(robots_cache'[rdom[w]])
                 /\ allowed'[w]
                 /\ rurl'[w] = rurl[w]
                 /\ rpc'[w] \in {"lock_wait", "sleeping", "fetching"}
       /\ \A u \in PageUrls :
             (/\ respect_robots_txt
              /\ delivered'[u] = delivered[u] + 1
              /\ EmptyRecord(robots_cache[netloc(u)])) =>
                 /\ robots_gets' = robots_gets
                 /\ robots_cache' = robots_cache
                 /\ \E w \in Workers :
                       /\ rpc[w] = "ready"
                       /\ rurl'[w] = u
                       /\ allowed'[w]
                       /\ rpc'[w] \in {"lock_wait", "sleeping", "fetching"}]_vars

\* The GET for https://b.test/ failed and that URL has been fetched and
\* recorded; /private of the host is being fetched on the cached record.
C28_Witness ==
    /\ robots_cache["b.test"] = RobotsData("", 0, FALSE)
    /\ robots_gets["b.test"] = 0
    /\ delivered[Ext] = 1
    /\ delivered[Ext2] = 0
    /\ request_count["b.test"] = 1
    /\ \E w \in Workers :
          rurl[w] = ExtPrivate /\ allowed[w] /\ rpc[w] = "fetching"

\* ---- C29 (SpecNormalize)
\* C29: normalize applied to an output of normalize returns it unchanged.
C29_NormalizeIdempotent ==
    [][napplied >= 1 => nurl' = nurl]_vars

\* C22: a static fetch result with is_blocked = true is treated as a
\* non-success: the worker that holds it goes on neither to the renderer nor
\* to the extraction, so that no page record of it reaches the sink and the
\* URL is not marked crawled.
C22_BlockedIsNonSuccess ==
    \A w \in Workers :
        pc[w] \in {"render", "extract"} => ~fetch_result[w].is_blocked

\* C23: when rendering is needed and the render does not succeed, whether it
\* returns a failed result or the browser fails to launch, the page goes on
\* to the extraction with the static HTML.
C23_RenderFailureFallsBack ==
    [][\A w \in Workers :
          (pc[w] = "render" /\ pc'[w] \notin {"render", "cancelled"})
          => /\ pc'[w] = "extract"
             /\ html'[w] \in {html[w], "rendered"}
             /\ fetch_result'[w] = fetch_result[w]]_vars

\* C24: a worker that has ended, stop requested or not, holds no URL: the
\* URL it popped last was handled to the end and its entry released, none is
\* abandoned between get and the bookkeeping.
C24_NoUrlAbandoned ==
    \A w \in Workers :
        pc[w] \in {"done", "cancelled"} => entry[w] = NoEntry

\* C25: over any run the client's close and the renderer's close are each
\* invoked at most once, and once start has returned exactly once (the
\* renderer's where a renderer was built).
C25_ClosedExactlyOnce ==
    /\ client_closes <= 1
    /\ renderer_closes <= 1
    /\ start_pc = "returned"
       => /\ client_closes = 1
          /\ has_renderer(render_mode) => renderer_closes = 1

RunHandling == Handling \cup {"render"}

\* C26: no outcome of handling a URL ends a worker.  In every step in which
\* stop is not requested, no worker ends with an exception, a worker that
\* is handling a URL goes on handling it or is back at the head of its
\* loop, and a worker returns only on finding the frontier empty.
C26_WorkerSurvivesUrl ==
    [][running'
       => \A w \in Workers :
             /\ pc'[w] # "crashed"
             /\ pc[w] \in RunHandling => pc'[w] \in RunHandling \cup {"loop"}
             /\ (pc[w] # "done" /\ pc'[w] = "done") => Len(queue) = 0]_vars

\* The one worker still running has had an extractor raise on a URL and is
\* handling the next URL.
C26_Witness ==
    /\ running
    /\ stats.pages_failed >= 1
    /\ \E u \in Urls : failed_urls[url_hash(u)] > 0
    /\ \E w \in Workers :
          /\ pc[w] = "fetch"
          /\ \A v \in Workers \ {w} : pc[v] = "done"

\* C30: every URL admitted to the frontier, the seed as well as the links,
\* is an output of the normalizer, and no two spellings with the same
\* canonical URL are both admitted and fetched.
C30_AdmittedAreCanonical ==
    /\ \A u \in accepted : normalize_url(u) = u
    /\ \A u, v \in accepted :
          (/\ normalize_url(u) = normalize_url(v)
           /\ delivered[u] > 0
           /\ delivered[v] > 0) => u = v

\* ---- C31 (SpecPage)
\* C31: right after a 429 or 5xx response has been recorded for a domain,
\* the handling of a next URL (its robots check, its set_crawl_delay and
\* its acquire) leaves the domain's current_delay at least as large as the
\* record left it.
C31_EscalationKept ==
    [][\A d \in Domains :
          (/\ last_record.domain = d
           /\ last_record.status_code \in {429, 500}
           /\ last_record' = NoRecord)
          => current_delay'[d] >= current_delay[d]]_vars

\* ---- C32 (SpecRobots)
\* C32: a call of fetch_and_parse, can_fetch or get_crawl_delay for a host
\* whose cached record has expired (now - fetch_time >= ttl) issues a new
\* GET of robots.txt, and a call for a host whose record has not expired
\* issues none.
C32_ExpiredIsRefetched ==
    [][\A d \in Domains :
          (rcall'.domain = d /\ robots_cache[d].cached)
          => (rcall'.get <=> now - fetch_time[d] >= cache_ttl)]_vars

\* ---- C33 (SpecRobots)
\* C33: can_fetch(url, ua) on a host that served a robots.txt returns what
\* the rules of that file say for the user agent ua it was given: false for
\* a disallowed path of ua's group (or of the * group when no group names
\* ua), true otherwise.
C33_DecidesForGivenAgent ==
    [][rcall'.op = "can_fetch"
       => LET data == robots_cache'[rcall'.domain]
          IN  data.raw_content # ""
              => rcall'.ret = parser_can_fetch(data.raw_content,
                                               rcall'.user_agent,
                                               rcall'.url)]_vars

\* ---- C34 (SpecRun)
\* C34: after a successful static fetch the renderer is invoked, in mode
\* javascript for every page, in mode auto exactly when the static body is
\* shorter than 1000 characters or holds no '<a', in mode static never; and
\* in mode static there is no renderer to launch or to close.
C34_RenderByMode ==
    [][/\ \A w \in Workers :
             (pc[w] = "fetch" /\ pc'[w] \in {"render", "extract"})
             => (pc'[w] = "render"
                 <=> \/ render_mode = "javascript"
                     \/ /\ render_mode = "auto"
                        /\ \/ ~html_long(html'[w])
                           \/ ~has_anchor(html'[w]))
       /\ render_mode = "static"
          => browser' = "none" /\ renderer_closes' = 0]_vars

\* In mode auto a long page without links is at the renderer while a long
\* page with links is at the extraction.
C34_Witness ==
    /\ render_mode = "auto"
    /\ \E w, v \in Workers :
          /\ pc[w] = "render" /\ html[w] = "text"
          /\ pc[v] = "extract" /\ html[v] = "content"
          /\ fetch_result[v].html = "content"

\* ---- C35 (SpecLinks)
is_external(url) == netloc(url) # "a.test"

InSeq(x, seq) == \E i \in DOMAIN seq : seq[i] = x

ExternalOffers(links) ==
    Cardinality({i \in DOMAIN links : is_external(links[i].url)})

\* C35: when a page at depth d has been crawled, the links the worker goes
\* on to offer are every internal link of the page at priority NORMAL and,
\* with follow_external_links set, the first 10 external links of the page
\* at priority DEFERRED, none with the flag unset; every offer is made at
\* depth d+1; and with the flag unset no external link is ever admitted.
C35_LinksOffered ==
    [][/\ \A w \in Workers :
            (pc[w] = "mark_crawled" /\ pc'[w] # "mark_crawled")
            => LET url == entry[w].url
                   internal == InternalLinks(site, url)
                   external == ExternalLinks(site, url)
                   offers == IF pc'[w] = "links" THEN pending'[w] ELSE <<>>
               IN  /\ \A i \in DOMAIN internal :
                         InSeq(Link(internal[i], NORMAL), offers)
                   /\ \A i \in DOMAIN offers :
                         IF is_external(offers[i].url)
                         THEN /\ follow_external_links
                              /\ offers[i].priority = DEFERRED
                              /\ \E j \in 1..10 :
                                    /\ j <= Len(external)
                                    /\ external[j] = offers[i].url
                         ELSE /\ offers[i].priority = NORMAL
                              /\ InSeq(offers[i].url, internal)
                   /\ ExternalOffers(offers) =
                         IF follow_external_links
                         THEN Min(10, Len(external))
                         ELSE 0
       /\ \A w \in Workers :
            (pc[w] = "links" /\ pending'[w] # pending[w])
            => /\ lastOp' = Op("add", Head(pending[w]).url,
                               entry[w].depth + 1, Head(pending[w]).priority,
                               lastOp'.ret)
               /\ pending'[w] = Tail(pending[w])
       /\ ~follow_external_links
          => \A url \in accepted' : ~is_external(url)]_vars

\* The tenth external link of the portal page has been offered at priority
\* DEFERRED and depth 1 and admitted, the last offer of the page.
C35_Witness ==
    /\ site = "portal"
    /\ follow_external_links
    /\ lastOp = Op("add", ExtLink(10), 1, DEFERRED, TRUE)
    /\ \A w \in Workers : pending[w] = <<>>
    /\ P1 \in accepted

\* ---- C36 (SpecDedup)
\* C36: check(url, text) reports a duplicate exactly when the trimmed text
\* has at least 50 characters and either its content hash is stored or a
\* stored simhash is similar to its own at the threshold or above; it
\* stores the text's two fingerprints under the URL exactly when it reports
\* unique, and leaves the stored fingerprints as they are when it reports a
\* duplicate or skips a short text.
C36_CheckReports ==
    [][dresult' # dresult
       => LET url == dresult'.url
              text == dresult'.text
              long == text.stripped_len >= 50
              stored_exact == exact_hashes[content_hash(text)] # NoUrl
              stored_near ==
                 \E u \in DedupUrls :
                    /\ simhashes[u] # NoFingerprint
                    /\ (hash_bits - hamming_distance(text.bits, simhashes[u]))
                          * 100 >= similarity_threshold * hash_bits
          IN  /\ dresult'.is_duplicate <=> long /\ (stored_exact \/ stored_near)
              /\ dresult'.method = "unique" <=> long /\ ~dresult'.is_duplicate
              /\ dresult'.method = "skipped_short_content" <=> ~long
              /\ IF dresult'.method = "unique"
                 THEN /\ exact_hashes' =
                            [exact_hashes EXCEPT ![content_hash(text)] = url]
                      /\ simhashes' = [simhashes EXCEPT ![url] = text.bits]
                 ELSE /\ exact_hashes' = exact_hashes
                      /\ simhashes' = simhashes]_vars

\* With the 50-character text and an unrelated text stored, a text whose
\* fingerprint is at Hamming distance 9 from the first has been reported as
\* a near duplicate.
C36_Witness ==
    /\ dresult.is_duplicate
    /\ dresult.method = "simhash"
    /\ dresult.text.normalized = "near"
    /\ exact_hashes[sha256_hash("alpha")] # NoUrl
    /\ exact_hashes[sha256_hash("far")] = NoUrl
    /\ exact_hashes[sha256_hash("other")] # NoUrl
    /\ duplicate_count = 1

\* ---- C37 (SpecLive)
\* C37: with stop never called, under fair scheduling every worker
\* eventually exits and start returns; and whenever all workers have exited
\* the queue is empty and every admitted URL has been delivered by get.
C37_CrawlEndsDrained ==
    /\ <>(Finished /\ ~running)
    /\ [](Finished => /\ Len(queue) = 0
                      /\ \A url \in accepted : delivered[url] > 0)

\* start has returned from a crawl in which three URLs were admitted, one
\* of them failed with an exception and two were crawled.
C37_Witness ==
    /\ Finished
    /\ ~running
    /\ Cardinality(accepted) >= 3
    /\ stats.pages_crawled >= 2
    /\ \E url \in accepted : failed_urls[url_hash(url)] > 0

\* ---- C38 (SpecFrontier)
\* C38: between the critical sections of add and get the event is set
\* exactly when the queue holds an entry, so the wait of a get returns
\* whenever an entry is queued.
C38_EventTracksQueue ==
    /\ not_empty <=> Len(queue) > 0
    /\ \A w \in Workers :
           (pc[w] = "get_wait" /\ Len(queue) > 0) => ENABLED FGetWake(w)

\* A get has just popped one of two queued entries: the event stays set for
\* the task that still waits.
C38_Witness ==
    /\ lastOp.op = "get"
    /\ lastOp.ret
    /\ Len(queue) > 0
    /\ not_empty
    /\ \E w \in Workers : pc[w] = "get_wait"

\* ---- C39 (SpecFrontier)
\* C39: an add of an unseen URL that is refused for its depth or for the
\* full queue leaves the queue, the seen set, the crawled set and the failed
\* map as they were, so an add of the same URL with a depth within max_depth
\* is admitted as soon as the queue has room.
C39_RejectedAddLeavesNoTrace ==
    [][\A url \in Urls :
           (/\ lastOp'.op = "add"
            /\ lastOp'.url = url
            /\ ~lastOp'.ret
            /\ url_hash(url) \notin seen_urls)
           => /\ UNCHANGED <<queue, seen_urls, crawled_urls, failed_urls>>
              /\ \A depth \in 0..max_depth :
                     ~QueueFull' => AddResult(url, depth)']_vars

\* An unseen URL offered with a depth within max_depth has just been refused
\* because the queue is full.
C39_Witness ==
    /\ lastOp.op = "add"
    /\ ~lastOp.ret
    /\ lastOp.depth <= max_depth
    /\ url_hash(lastOp.url) \notin seen_urls
    /\ QueueFull

\* ---- C40 (SpecSink)
\* C40: once close has returned, every page passed to save_page is in
\* exactly one batch file.
PlacesOf(page) ==
    {bi \in (DOMAIN files) \X (1..MaxSaves) :
        bi[2] <= Len(files[bi[1]]) /\ files[bi[1]][bi[2]] = page}

C40_EveryPageInOneFile ==
    sink_pc[MainTask] = "closed" =>
        \A page \in 1..total_pages : Cardinality(PlacesOf(page)) = 1

====
